---- MODULE Spec2Model ----
(***************************************************************************)
(* Inventory ledger (FIFO lots, audit events) and incremental wallet       *)
(* reconciler of Einharjar Industries, modelled from src/app.              *)
(*                                                                         *)
(* The persistent store is modelled twice: `committed` is what the         *)
(* database holds durably, `session` is what the request's SQLAlchemy      *)
(* session sees (committed rows plus flushed, uncommitted writes).         *)
(* db.commit() copies session to committed, db.rollback() copies           *)
(* committed to session.                                                   *)
(***************************************************************************)
EXTENDS Integers, Sequences, FiniteSets, TLC

VARIABLES committed, session, characters, remote, run, last, hist

\* The gateway (src/app/esi_client.py): its clock in half seconds, the response
\* cache, the cooldown of the error-budget governor, the access-token cache of
\* the characters, the esi_get calls in progress and a log of the network.
VARIABLES clock, cache, error_pause_until, token_cache, fetches, net

\* What the credential manager (get_access_token) reads besides its cache: the
\* client identity of the process and the refresh_token column of the linked
\* characters, with the values the SSO has issued and the database has held.
VARIABLES creds

ledgervars == <<committed, session, characters, remote, run, last, hist>>

gwvars == <<clock, cache, error_pause_until, token_cache, fetches, net, creds>>

vars == <<ledgervars, gwvars>>

(***************************************************************************)
(* Bounds                                                                  *)
(***************************************************************************)
NumChars == 1        \* linked characters (principals)
NumItems == 1        \* item / type ids
MaxQty == 2          \* largest quantity of a wallet or pasted row
MaxTime == 1         \* distinct timestamps
MaxLots == 2         \* lots created in one behaviour
MaxTx == 3           \* remote wallet transactions in one behaviour
InvMaxTx == 1        \* remote wallet transactions of the inventory specification
DupMaxTx == 2        \* remote wallet transactions of the duplicate-delivery specification
MaxRows == 1         \* rows of one pasted import / export form
LedgerNumItems == 2  \* items of the ledger-only specification
LedgerMaxTime == 2   \* timestamps of the ledger-only specification
LedgerMaxQty == 3    \* largest lot of the ledger-only specification
LedgerMaxLots == 2   \* lots of the ledger-only specification
LedgerMaxReq == 7    \* largest request of the ledger-only specification
LedgerMaxCalls == 2  \* consume calls of the ledger-only specification
NumPrincipals == 1   \* characters that call the gateway
NumTokens == 1       \* explicit access tokens
NumPaths == 1        \* request paths (path and query parameters)
NumData == 1         \* payload versions the remote API serves
NumProcs == 2        \* esi_get calls in progress at once
MaxPriorRequests == 1  \* requests before the last call under a failing API
SingleFetch == 1     \* esi_get calls of a behaviour that follows one call to its end
MaxFetches == 2      \* esi_get calls of one sequential behaviour
MaxConcurrent == 2   \* esi_get calls of one concurrent behaviour
MaxIdleClock == 3    \* last instant at which time passes between calls
ResetSeconds == 30    \* a positive X-ESI-Error-Limit-Reset value
TtlTicks == 2        \* lifetime of a response whose Expires is in the future
NumPrices == 1       \* unit prices of the journal rows where prices are not followed
NumQueuePrices == 2  \* unit prices of the journal rows of the queue review
QueueMaxTx == 2      \* rows of the remote journal of the queue review
NumScenarioItems == 2 \* item types of the rows of the two-row journal
MaxScenarioTime == 2 \* dates of the rows of the two-row journal
NumSweepChars == 2   \* linked characters of a sweep over several of them
SweepMaxTx == 2      \* rows of the remote journals of such a sweep
MaxRefresh == 3      \* refresh tokens the SSO issues in one behaviour
MaxTokenFetches == 3 \* esi_get calls of one behaviour of the credential manager
MaxRestarts == 1     \* restarts of the process in one behaviour

None == -1           \* NULL of a nullable integer column

Chars == 1..NumChars
Prices == 1..NumPrices
Items == 1..NumItems
Times == 1..MaxTime

Min(a, b) == IF a <= b THEN a ELSE b
Max(a, b) == IF a >= b THEN a ELSE b

(***************************************************************************)
(* Inventory ledger: src/app/inventory_service.py                          *)
(***************************************************************************)

\* InventoryLot row; its id is its index in the lots sequence.
InventoryLot(item, quantity, unit_cost, acquired) ==
  [item_id |-> item, quantity_total |-> quantity,
   quantity_remaining |-> quantity, unit_cost |-> unit_cost,
   acquired_at |-> acquired]

\* InventoryEvent row.
InventoryEvent(type, item, lot, quantity) ==
  [event_type |-> type, item_id |-> item, lot_id |-> lot, quantity |-> quantity]

\* create_lot_from_import: the lot and its import event are flushed into the
\* session; a non-positive quantity raises ValueError before any write.
create_lot_from_import(db, item, quantity, unit_cost, acquired) ==
  IF quantity <= 0
    THEN [raised |-> "ValueError", db |-> db]
    ELSE LET lots2 == Append(db.lots, InventoryLot(item, quantity, unit_cost, acquired))
         IN [raised |-> "none",
             db |-> [db EXCEPT !.lots = lots2,
                               !.events = Append(db.events,
                                      InventoryEvent("import", item, Len(lots2), quantity))]]

\* ORDER BY acquired_at ASC, id ASC
LotBeforeById(lots, x, y) == x <= y

LotBefore(lots, x, y) ==
  \/ lots[x].acquired_at < lots[y].acquired_at
  \/ (lots[x].acquired_at = lots[y].acquired_at /\ x <= y)

RECURSIVE SortLots(_, _)
SortLots(lots, S) ==
  IF S = {} THEN <<>>
  ELSE LET m == CHOOSE x \in S : \A y \in S : LotBefore(lots, x, y)
       IN <<m>> \o SortLots(lots, S \ {m})

\* WHERE item_id = :item AND quantity_remaining > 0 ORDER BY acquired_at, id
FifoLots(lots, item) ==
  SortLots(lots, {i \in DOMAIN lots :
                    lots[i].item_id = item /\ lots[i].quantity_remaining > 0})

RECURSIVE SumRemaining(_, _)
SumRemaining(lots, order) ==
  IF order = <<>> THEN 0
  ELSE lots[Head(order)].quantity_remaining + SumRemaining(lots, Tail(order))

\* take = min(lot.quantity_remaining, remaining)
TakeAll(lot_remaining, remaining) == remaining

Take(lot_remaining, remaining) == Min(lot_remaining, remaining)

\* lot.quantity_remaining -= take
DecrementRestocks(lot_remaining, take) == lot_remaining + take

Decrement(lot_remaining, take) == lot_remaining - take

\* An event that records one unit whatever was taken.
EventQuantityOne(take) == 1

\* quantity=take of the event of a decrement.
EventQuantity(take) == take

\* The loop of consume_lot_fifo over the ordered lots.  The decrement is
\* written to the lot before the negative check raises.
RECURSIVE ConsumeLoop(_, _, _, _, _, _, _)
ConsumeLoop(order, lots, events, remaining, consumed, item, event_type) ==
  IF order = <<>> \/ remaining <= 0
    THEN [raised |-> "none", lots |-> lots, events |-> events,
          remaining |-> remaining, consumed |-> consumed]
    ELSE LET id == Head(order)
             take == Take(lots[id].quantity_remaining, remaining)
             left == Decrement(lots[id].quantity_remaining, take)
             lots2 == [lots EXCEPT ![id].quantity_remaining = left]
         IN IF take <= 0
              THEN ConsumeLoop(Tail(order), lots, events, remaining, consumed,
                               item, event_type)
              ELSE IF left < 0
                THEN [raised |-> "AssertionError", lots |-> lots2, events |-> events,
                      remaining |-> remaining, consumed |-> consumed]
                ELSE ConsumeLoop(Tail(order), lots2,
                                 Append(events, InventoryEvent(event_type, item, id,
                                                       EventQuantity(take))),
                                 remaining - take, consumed + take, item, event_type)

\* if not allow_partial and total_available < quantity: raise
ShortageNeverRaises(allow_partial, total_available, quantity) == FALSE

Shortage(allow_partial, total_available, quantity) ==
  ~allow_partial /\ total_available < quantity

\* consume_lot_fifo: result record and the session after the call.
consume_lot_fifo(db, item, quantity, event_type, allow_partial) ==
  IF quantity <= 0
    THEN [raised |-> "none", db |-> db, consumed |-> 0, requested |-> quantity,
          remaining_request |-> 0, total_available_before |-> 0, available |-> None]
    ELSE LET order == FifoLots(db.lots, item)
             total_available == SumRemaining(db.lots, order)
         IN IF Shortage(allow_partial, total_available, quantity)
              THEN [raised |-> "InsufficientInventoryError", db |-> db, consumed |-> 0,
                    requested |-> quantity, remaining_request |-> quantity,
                    total_available_before |-> total_available,
                    available |-> total_available]
              ELSE LET r == ConsumeLoop(order, db.lots, db.events, quantity, 0,
                                        item, event_type)
                   IN [raised |-> r.raised,
                       db |-> [db EXCEPT !.lots = r.lots, !.events = r.events],
                       consumed |-> r.consumed, requested |-> quantity,
                       remaining_request |-> Max(r.remaining, 0),
                       total_available_before |-> total_available,
                       available |-> None]

(***************************************************************************)
(* Store and initial state                                                 *)
(***************************************************************************)

\* EsiWalletSyncState row of a character; present = FALSE while no row exists.
NoSyncState ==
  [present |-> FALSE, last_transaction_id |-> None,
   last_sync_status |-> "", last_sync_message |-> <<>>]

EmptyDb ==
  [items |-> {}, lots |-> <<>>, events |-> <<>>, queue |-> <<>>,
   sync |-> [c \in Chars |-> NoSyncState],
   applied |-> [t \in 1..MaxTx |-> 0]]

IdleRun == [phase |-> "idle"]

NoCall == [op |-> "none"]

\* What a run did with a transaction: a queue entry, or units taken from lots.
NoEffect == [touched |-> FALSE, queued |-> FALSE, consumed |-> 0]

Effect(queued, consumed) ==
  [touched |-> TRUE, queued |-> queued, consumed |-> IF queued THEN 0 ELSE consumed]

(***************************************************************************)
(* Gateway store: src/app/esi_client.py                                    *)
(***************************************************************************)

ERROR_LIMIT_THRESHOLD == 2
MAX_RETRIES == 3
\* 0.5 s; the clock counts half seconds.
BASE_BACKOFF_SECONDS == 1

\* timedelta(seconds=s) on the clock.
Seconds(s) == 2 * s

Principals == 1..NumPrincipals
Tokens == 1..NumTokens
Paths == 1..NumPaths
Procs == 1..NumProcs

\* _auth_identity values: "public", "character:<id>", "token:<digest>".
Identity(kind, id) == [kind |-> kind, id |-> id]

Identities ==
  {Identity("public", None)}
    \cup {Identity("character", c) : c \in Principals}
    \cup {Identity("token", t) : t \in Tokens}

\* A parsed JSON body: version 0 is the JSON null; cred names the credential
\* the request that fetched it was sent with.
Body(cred, version) == [cred |-> cred, version |-> version]

\* An entry of _cache; absent keys hold NoEntry.
NoEntry ==
  [present |-> FALSE, data |-> Body(Identity("public", None), 0),
   expires_at |-> None, etag |-> None]

CacheEntry(data, expires_at, etag) ==
  [present |-> TRUE, data |-> data, expires_at |-> expires_at, etag |-> etag]

\* An entry of _token_cache.  refresh_token is the refresh token the exchange
\* that produced the access token answered with.
NoToken == [present |-> FALSE, expires_at |-> None, refresh_token |-> None]

TokenEntry(expires_at, refresh_token) ==
  [present |-> TRUE, expires_at |-> expires_at, refresh_token |-> refresh_token]

NoResponse == [status |-> None, remain |-> None, reset |-> None, expires |-> None,
               etag |-> None, data |-> Body(Identity("public", None), 0)]
\* No esi_get call is running.
IdleFetch ==
  [pc |-> "idle", path |-> None, character |-> None, public |-> TRUE,
   token |-> None, force_refresh |-> FALSE,
   identity |-> Identity("public", None), cred |-> Identity("public", None),
   attempt |-> 0, entry |-> NoEntry, resp |-> NoResponse, wake |-> None,
   requests |-> 0, token_posts |-> 0, statuses |-> <<>>, retry_at |-> None,
   looked_up |-> FALSE, dropped |-> FALSE, resleeps |-> 0,
   refresh_token |-> None, new_refresh |-> None, expires_in |-> None,
   token_left |-> None,
   outcome |-> "none", status |-> None, message |-> "none",
   data |-> Body(Identity("public", None), 0), from_cache |-> FALSE]

InitGateway ==
  /\ clock = 0
  /\ cache = [k \in Paths \X Identities |-> NoEntry]
  /\ error_pause_until = None
  /\ token_cache = [c \in Principals |-> NoToken]
  /\ fetches = [p \in Procs |-> IdleFetch]
  /\ net = [started |-> 0, requests |-> 0, low_until |-> 0, low_status |-> None, low_remain |-> None]
  /\ creds = [client |-> TRUE,
              refresh_token |-> [c \in Principals |-> 1],
              issued |-> 1,
              persisted |-> [c \in Principals |-> {1}],
              restarts |-> 0]

Init ==
  /\ InitGateway
  /\ committed = EmptyDb
  /\ session = EmptyDb
  /\ characters = [c \in Chars |-> [wallet_scan_buys |-> TRUE, wallet_scan_sells |-> TRUE]]
  /\ remote = [c \in Chars |-> <<>>]
  /\ run = IdleRun
  /\ last = NoCall
  /\ hist = [calls |-> 0, effects |-> [t \in 1..MaxTx |-> NoEffect]]

(***************************************************************************)
(* Ledger-only specification: the two service functions called on one      *)
(* session, from an empty ledger.                                          *)
(***************************************************************************)
LedgerCreate(item, quantity, acquired) ==
  /\ Len(session.lots) < LedgerMaxLots
  /\ LET r == create_lot_from_import(session, item, quantity, 1, acquired)
     IN /\ session' = r.db
        /\ last' = [op |-> "create", item |-> item, quantity |-> quantity,
                    raised |-> r.raised, pre |-> session]
  /\ UNCHANGED <<gwvars, committed, characters, remote, run, hist>>

LedgerConsume(item, quantity, allow_partial) ==
  /\ hist.calls < LedgerMaxCalls
  /\ hist' = [hist EXCEPT !.calls = @ + 1]
  /\ LET r == consume_lot_fifo(session, item, quantity, "sale", allow_partial)
     IN /\ session' = r.db
        /\ last' = [op |-> "consume", item |-> item, quantity |-> quantity,
                    allow_partial |-> allow_partial, raised |-> r.raised,
                    consumed |-> r.consumed, requested |-> r.requested,
                    remaining_request |-> r.remaining_request,
                    total_available_before |-> r.total_available_before,
                    available |-> r.available, pre |-> session]
  /\ UNCHANGED <<gwvars, committed, characters, remote, run>>

NextLedger ==
  \/ \E item \in 1..LedgerNumItems, quantity \in 0..LedgerMaxQty,
        acquired \in 1..LedgerMaxTime :
       LedgerCreate(item, quantity, acquired)
  \/ \E item \in 1..LedgerNumItems, quantity \in 0..LedgerMaxReq,
        allow_partial \in BOOLEAN :
       LedgerConsume(item, quantity, allow_partial)

SpecLedger == Init /\ [][NextLedger]_vars

(***************************************************************************)
(* Wallet reconciler: src/app/wallet_sync.py                               *)
(***************************************************************************)

\* A row of the remote wallet journal (ESI wallet/transactions).
WalletTx(id, is_buy, quantity, unit_price, type_id, date) ==
  [transaction_id |-> id, is_buy |-> is_buy, quantity |-> quantity,
   unit_price |-> unit_price, type_id |-> type_id, date |-> date]

\* ORDER BY is_default_trader DESC, id ASC; the last character is the default
\* trader.
SweepOrder ==
  IF characters = <<>> THEN <<>>
  ELSE <<Len(characters)>> \o [k \in 1..(Len(characters) - 1) |-> k]

\* The characters sync_character_wallet_once has still to visit: all of them
\* when the handler is called, the rest between two characters.
Todo == IF run.phase = "idle" THEN SweepOrder ELSE run.todo

BetweenRuns == run.phase \in {"idle", "next"}

\* per_character so far: the outcome records of the characters the running
\* handler has visited.
Results == IF run.phase = "idle" THEN <<>> ELSE run.results

\* The handler is about to visit a character.
NextCharacter == BetweenRuns /\ Todo # <<>>

\* The loop of sync_character_wallet_once moves on; after the last character
\* the handler returns.
AfterRunAborted(todo, results) == IdleRun

AfterRun(todo, results) ==
  IF Tail(todo) = <<>> THEN IdleRun
  ELSE [phase |-> "next", todo |-> Tail(todo), results |-> results]

\* Ids already handed out by the remote journal.
RECURSIVE RemoteCountUpTo(_)
RemoteCountUpTo(n) == IF n = 0 THEN 0 ELSE Len(remote[n]) + RemoteCountUpTo(n - 1)

RemoteCount == RemoteCountUpTo(Len(remote))

\* The remote journal is append-only and its ids ascend.  A row appended while
\* a batch is in its loop is not in that batch's snapshot, so appends are
\* taken between batches.
RemoteAppend(limit, c, is_buy, quantity, unit_price, type_id, date) ==
  /\ BetweenRuns
  /\ RemoteCount < limit
  /\ remote' = [remote EXCEPT ![c] =
                  Append(@, WalletTx(RemoteCount + 1, is_buy, quantity, unit_price,
                                     type_id, date))]
  /\ last' = NoCall
  /\ UNCHANGED <<gwvars, committed, session, characters, run, hist>>

\* The batch processed in the order of its delivery.
AsDelivered(tx_data) == tx_data

\* sorted(tx_data, key=transaction_id): stable insertion sort.
RECURSIVE InsertById(_, _)
InsertById(sorted, tx) ==
  IF sorted = <<>> THEN <<tx>>
  ELSE IF tx.transaction_id < Head(sorted).transaction_id
         THEN <<tx>> \o sorted
         ELSE <<Head(sorted)>> \o InsertById(Tail(sorted), tx)

RECURSIVE SortById(_)
SortById(tx_data) ==
  IF tx_data = <<>> THEN <<>>
  ELSE InsertById(SortById(SubSeq(tx_data, 1, Len(tx_data) - 1)),
                  tx_data[Len(tx_data)])

\* _save_wallet_sync_state before its commit: the cursor is written only when
\* an id is passed.
SaveOverwritesCursor(db, c, last_transaction_id, sync_status, sync_message) ==
  [db EXCEPT !.sync[c] = [present |-> TRUE,
                          last_transaction_id |-> last_transaction_id,
                          last_sync_status |-> sync_status,
                          last_sync_message |-> sync_message]]

save_wallet_sync_state(db, c, last_transaction_id, sync_status, sync_message) ==
  [db EXCEPT !.sync[c] = [present |-> TRUE,
                          last_transaction_id |->
                            IF last_transaction_id # None
                              THEN last_transaction_id
                              ELSE db.sync[c].last_transaction_id,
                          last_sync_status |-> sync_status,
                          last_sync_message |-> sync_message]]

\* _build_character_sync_detail: the parts of the message, in order.
build_character_sync_detail(stats) ==
  IF stats.scanning_disabled THEN <<"skipped, scanning disabled">>
  ELSE (IF stats.new_transactions > 0
          THEN <<"processed", stats.new_transactions, stats.queued_imports,
                 stats.auto_sales>>
               \o (IF stats.unmatched_sale_units > 0
                     THEN <<"unmatched", stats.unmatched_sale_units>> ELSE <<>>)
          ELSE <<"no new transactions">>)
       \o (IF stats.skipped_buys_disabled > 0
             THEN <<"skipped buys", stats.skipped_buys_disabled>> ELSE <<>>)
       \o (IF stats.skipped_sells_disabled > 0
             THEN <<"skipped sells", stats.skipped_sells_disabled>> ELSE <<>>)

NewStats(c) ==
  [character_id |-> c, new_transactions |-> 0, queued_imports |-> 0,
   auto_sales |-> 0, unmatched_sale_units |-> 0, skipped_buys_disabled |-> 0,
   skipped_sells_disabled |-> 0, scanning_disabled |-> FALSE]

\* EsiWalletQueueEntry row; its id is its index in the queue sequence.
EsiWalletQueueEntry(c, tx) ==
  [source_kind |-> "character", character_id |-> c, corporation_id |-> None,
   transaction_id |-> tx.transaction_id, direction |-> "import",
   item_id |-> tx.type_id, quantity |-> tx.quantity, unit_price |-> tx.unit_price,
   eve_time |-> tx.date, status |-> "pending"]

\* The existence check of _enqueue_wallet_tx; the query autoflushes, so rows
\* added earlier in the same batch are seen.
NeverQueued(queue, c, tx_id) == FALSE

AlreadyQueued(queue, c, tx_id) ==
  \E k \in DOMAIN queue :
    queue[k].character_id = c /\ queue[k].transaction_id = tx_id

\* _enqueue_wallet_tx
enqueue_wallet_tx(db, c, tx) ==
  IF ~tx.is_buy THEN [created |-> FALSE, db |-> db]
  ELSE IF AlreadyQueued(db.queue, c, tx.transaction_id)
    THEN [created |-> FALSE, db |-> db]
    ELSE [created |-> TRUE,
          db |-> [db EXCEPT !.queue = Append(@, EsiWalletQueueEntry(c, tx))]]

\* _record_sale_from_tx: partial FIFO consumption; the applied counter records
\* the call for the transaction.
record_sale_from_tx(db, tx) ==
  LET r == consume_lot_fifo(db, tx.type_id, tx.quantity, "sale", TRUE)
  IN [raised |-> r.raised,
      db |-> [r.db EXCEPT !.applied[tx.transaction_id] = @ + 1],
      requested |-> tx.quantity, consumed |-> r.consumed,
      unmatched |-> r.remaining_request,
      total_available_before |-> r.total_available_before]

\* get_or_create_item_from_type_id: the item row is flushed when missing.
get_or_create_item_from_type_id(db, type_id) ==
  [db EXCEPT !.items = @ \cup {type_id}]

\* if last_id is not None and tx_id <= last_id: continue
AlreadySeenStrict(last_id, tx_id) == last_id # None /\ tx_id < last_id

AlreadySeen(last_id, tx_id) == last_id # None /\ tx_id <= last_id

\* A row of a disabled side: `if tx_id > new_last_id: new_last_id = tx_id`
\* before the continue.
SkipStays(new_last_id, tx_id) == new_last_id

SkipAdvance(new_last_id, tx_id) == Max(new_last_id, tx_id)

\* One iteration of the loop of _sync_wallet_for_character over tx.
SyncStep(r, db, flags, tx) ==
  LET tx_id == tx.transaction_id
      bumped == [r EXCEPT !.new_last_id = Max(@, tx_id)]
  IN IF AlreadySeen(r.last_id, tx_id) THEN [raised |-> "none", run |-> r, db |-> db]
     ELSE IF tx.quantity <= 0 THEN [raised |-> "none", run |-> r, db |-> db]
     ELSE LET db1 == get_or_create_item_from_type_id(db, tx.type_id)
          IN IF tx.is_buy
               THEN IF ~flags.wallet_scan_buys
                      THEN [raised |-> "none", db |-> db1,
                            run |-> [r EXCEPT !.new_last_id = SkipAdvance(@, tx_id),
                                              !.stats.skipped_buys_disabled = @ + 1]]
                      ELSE LET e == enqueue_wallet_tx(db1, r.ch, tx)
                           IN [raised |-> "none", db |-> e.db,
                               run |-> IF e.created
                                 THEN [bumped EXCEPT !.stats.queued_imports = @ + 1,
                                                     !.stats.new_transactions = @ + 1,
                                                     !.created = TRUE]
                                 ELSE [bumped EXCEPT !.created = FALSE]]
               ELSE IF ~flags.wallet_scan_sells
                      THEN [raised |-> "none", db |-> db1,
                            run |-> [r EXCEPT !.new_last_id = SkipAdvance(@, tx_id),
                                              !.stats.skipped_sells_disabled = @ + 1]]
                      ELSE LET sale == record_sale_from_tx(db1, tx)
                           IN [raised |-> sale.raised, db |-> sale.db,
                               run |-> [bumped EXCEPT
                                 !.stats.auto_sales = @ + 1,
                                 !.stats.unmatched_sale_units = @ + sale.unmatched,
                                 !.stats.new_transactions = @ + 1]]

\* progressed = last_id is None or new_last_id > last_id
CursorNeverSaved(last_id, new_last_id) == None

CursorToSave(last_id, new_last_id) ==
  IF last_id = None \/ new_last_id > last_id THEN new_last_id ELSE None

\* db.rollback(): the session drops its uncommitted writes.
RollbackKeeps(sess, comm) == sess

Rollback(sess, comm) == comm

\* The cursor argument of the error branch of sync_character_wallet_once.
ErrorCursorHighWater(r) == r.new_last_id

ErrorCursor(r) == None

\* The outcome of _sync_wallet_for_character for one character, as kept in
\* per_character; discarded counts the transactions whose writes the run
\* rolled back.
CharacterResult(c, status, detail) ==
  [character_id |-> c, sync_status |-> status, sync_detail |-> detail]

Outcome(c, status, stats, detail, discarded) ==
  [op |-> "sync", character_id |-> c, sync_status |-> status, discarded |-> discarded,
   per_character |-> Append(Results, CharacterResult(c, status, detail)),
   new_transactions |-> stats.new_transactions,
   queued_imports |-> stats.queued_imports, auto_sales |-> stats.auto_sales,
   unmatched_sale_units |-> stats.unmatched_sale_units,
   skipped_buys_disabled |-> stats.skipped_buys_disabled,
   skipped_sells_disabled |-> stats.skipped_sells_disabled,
   sync_detail |-> detail]

\* The cursor argument of the short-circuit: last_transaction_id=None.
SkippedCursorReset(last_id) == 0

SkippedCursor(last_id) == None

\* Both toggles off: the run records "skipped" and returns.
SyncSkipped ==
  /\ NextCharacter
  /\ LET c == Head(Todo)
         stats == [NewStats(c) EXCEPT !.scanning_disabled = TRUE]
         detail == build_character_sync_detail(stats)
         db == save_wallet_sync_state(session, c,
                   SkippedCursor(session.sync[c].last_transaction_id), "skipped", detail)
     IN /\ ~characters[c].wallet_scan_buys
        /\ ~characters[c].wallet_scan_sells
        /\ session' = db
        /\ committed' = db
        /\ last' = Outcome(c, "skipped", stats, detail, 0)
        /\ run' = AfterRun(Todo, last'.per_character)
  /\ UNCHANGED <<gwvars, characters, remote, hist>>

\* The run of one character after a fetch that delivered tx_data.
StartLoop(c, tx_data) ==
  LET last_id == session.sync[c].last_transaction_id
  IN [phase |-> "loop", todo |-> Todo, results |-> Results, ch |-> c, last_id |-> last_id,
      new_last_id |-> IF last_id = None THEN 0 ELSE last_id,
      txs |-> SortById(tx_data),
      created |-> FALSE,
      stats |-> NewStats(c)]

\* The orders in which n rows can arrive.
Orders(n) ==
  {order \in [1..n -> 1..n] : \A i, j \in 1..n : order[i] = order[j] => i = j}

\* The gateway delivers the journal, in any order.
SyncFetch ==
  /\ NextCharacter
  /\ LET c == Head(Todo)
     IN /\ characters[c].wallet_scan_buys \/ characters[c].wallet_scan_sells
        /\ \E order \in Orders(Len(remote[c])) :
             LET tx_data == [k \in 1..Len(remote[c]) |-> remote[c][order[k]]]
             IN run' = StartLoop(c, tx_data)
  /\ last' = NoCall
  /\ UNCHANGED <<gwvars, committed, session, characters, remote, hist>>

\* except Exception: rollback, then record "error" without a cursor.
ErrorHandler(exc) ==
  LET c == Head(Todo)
      rolled == Rollback(session, committed)
      err_msg == <<"Sync failed", exc>>
      cursor == IF run.phase = "loop" THEN ErrorCursor(run) ELSE None
      db == save_wallet_sync_state(rolled, c, cursor, "error", err_msg)
      stats == NewStats(c)
  IN /\ session' = db
     /\ committed' = db
     /\ last' = Outcome(c, "error", stats, err_msg \o <<".">>,
                         IF run.phase = "loop" THEN run.stats.new_transactions ELSE 0)
     /\ run' = AfterRun(Todo, last'.per_character)
     /\ UNCHANGED <<gwvars, characters, remote, hist>>

\* esi_get raises (transport, throttle, client or server error).
SyncFetchFail ==
  /\ NextCharacter
  /\ characters[Head(Todo)].wallet_scan_buys
       \/ characters[Head(Todo)].wallet_scan_sells
  /\ ErrorHandler("ESIClientError")

\* One transaction of the batch is processed in the session.  hist.effects
\* remembers what the latest batch that handled a transaction did with it:
\* enqueued, consumed, or skipped for a disabled side.
SyncTx ==
  /\ run.phase = "loop"
  /\ run.txs # <<>>
  /\ LET st == SyncStep([run EXCEPT !.txs = Tail(@)], session, characters[run.ch], Head(run.txs))
     IN IF st.raised # "none"
          THEN ErrorHandler(st.raised)
          ELSE /\ session' = st.db
               /\ run' = st.run
               /\ last' = NoCall
               /\ hist' = IF st.run.stats.new_transactions > run.stats.new_transactions
                            THEN [hist EXCEPT !.effects[Head(run.txs).transaction_id] =
                                    Effect(st.run.stats.queued_imports > run.stats.queued_imports,
                                           Head(run.txs).quantity
                                             - (st.run.stats.unmatched_sale_units
                                                  - run.stats.unmatched_sale_units))]
                            ELSE IF st.run.stats.skipped_buys_disabled
                                      + st.run.stats.skipped_sells_disabled
                                    > run.stats.skipped_buys_disabled
                                      + run.stats.skipped_sells_disabled
                              THEN [hist EXCEPT
                                      !.effects[Head(run.txs).transaction_id] = NoEffect]
                              ELSE hist
               /\ UNCHANGED <<gwvars, committed, characters, remote>>

\* A row cannot be processed (malformed field, item resolution fails), or the
\* final commit fails.
SyncTxFail ==
  /\ run.phase = "loop"
  /\ ErrorHandler("RuntimeError")

\* The loop is over: cursor and status are written and everything commits.
SyncFinish ==
  /\ run.phase = "loop"
  /\ run.txs = <<>>
  /\ LET c == run.ch
         detail == build_character_sync_detail(run.stats)
         db == save_wallet_sync_state(session, c,
                   CursorToSave(run.last_id, run.new_last_id), "ok", detail)
     IN /\ session' = db
        /\ committed' = db
        /\ last' = Outcome(c, "ok", run.stats, detail, 0)
        /\ run' = AfterRun(Todo, last'.per_character)
  /\ UNCHANGED <<gwvars, characters, remote, hist>>

\* The process dies inside a batch: the session and its writes are gone.
Crash ==
  /\ run.phase = "loop"
  /\ session' = committed
  /\ run' = IdleRun
  /\ last' = NoCall
  /\ UNCHANGED <<gwvars, committed, characters, remote, hist>>

(***************************************************************************)
(* Operator handlers: imports.py, exports.py, settings.py and the queue     *)
(* review of wallet_sync.py.  Each runs in its own request and session,    *)
(* between sweeps.                                                         *)
(***************************************************************************)

ImportRow(item, qty, time) ==
  [item_name |-> item, qty |-> qty, unit_cost |-> 1, time |-> time]

ImportRowSeqs ==
  UNION {[1..n -> {ImportRow(i, q, t) : i \in Items, q \in 0..MaxQty, t \in Times}]
           : n \in 1..MaxRows}

ExportRow(item, qty) == [item_name |-> item, qty |-> qty]

ExportRowSeqs ==
  UNION {[1..n -> {ExportRow(i, q) : i \in Items, q \in 0..(MaxQty + 1)}]
           : n \in 1..MaxRows}

\* The save loop of handle_import.  dt_eve is assigned only in the branch
\* that creates a missing item; None stands for the unbound local.
RECURSIVE ImportRows(_, _, _)
ImportRows(txs, db, dt_eve) ==
  IF txs = <<>> THEN [raised |-> "none", db |-> db]
  ELSE LET tx == Head(txs)
           missing == tx.item_name \notin db.items
           dt == IF missing THEN tx.time ELSE dt_eve
           db1 == [db EXCEPT !.items = @ \cup {tx.item_name}]
           lots2 == Append(db1.lots, InventoryLot(tx.item_name, tx.qty, tx.unit_cost, dt))
       IN IF tx.qty <= 0 THEN ImportRows(Tail(txs), db, dt_eve)
          ELSE IF dt = None THEN [raised |-> "UnboundLocalError", db |-> db1]
          ELSE ImportRows(Tail(txs),
                 [db1 EXCEPT !.lots = lots2,
                             !.events = Append(@, InventoryEvent("import", tx.item_name,
                                                                 Len(lots2), tx.qty))],
                 dt)

\* handle_import with save_to_inventory: one commit after the loop; an
\* exception leaves the request without a commit.
HandleImport(txs) ==
  /\ run.phase = "idle"
  /\ Len(committed.lots) + Len(txs) <= MaxLots
  /\ LET r == ImportRows(txs, session, None)
         db == IF r.raised = "none" THEN r.db ELSE committed
     IN /\ session' = db
        /\ committed' = db
        /\ last' = [op |-> "import", raised |-> r.raised]
  /\ UNCHANGED <<gwvars, characters, remote, run, hist>>

\* The loop of handle_import_janice with save_to_inventory; lots are acquired
\* at the time of the request.
RECURSIVE ImportJaniceRows(_, _, _)
ImportJaniceRows(rows, db, dt_now) ==
  IF rows = <<>> THEN db
  ELSE LET r == Head(rows)
           db1 == [db EXCEPT !.items = @ \cup {r.item_name}]
           lots2 == Append(db1.lots, InventoryLot(r.item_name, r.qty, r.unit_cost, dt_now))
       IN IF r.qty <= 0 THEN ImportJaniceRows(Tail(rows), db, dt_now)
          ELSE ImportJaniceRows(Tail(rows),
                 [db1 EXCEPT !.lots = lots2,
                             !.events = Append(@, InventoryEvent("import", r.item_name,
                                                                 Len(lots2), r.qty))],
                 dt_now)

HandleImportJanice(rows, dt_now) ==
  /\ run.phase = "idle"
  /\ Len(committed.lots) + Len(rows) <= MaxLots
  /\ LET db == ImportJaniceRows(rows, session, dt_now)
     IN /\ session' = db
        /\ committed' = db
        /\ last' = NoCall
  /\ UNCHANGED <<gwvars, characters, remote, run, hist>>

\* take = min(lot.quantity_remaining, remaining) of the export loops
ExportTakeAll(lot_remaining, remaining) == remaining

ExportTake(lot_remaining, remaining) == Min(lot_remaining, remaining)

\* The FIFO loop of handle_export / handle_export_janice.
RECURSIVE ExportLoop(_, _, _, _, _, _)
ExportLoop(order, lots, events, remaining, item, event_type) ==
  IF order = <<>> \/ remaining <= 0 THEN [lots |-> lots, events |-> events]
  ELSE LET id == Head(order)
           take == ExportTake(lots[id].quantity_remaining, remaining)
       IN IF take <= 0
            THEN ExportLoop(Tail(order), lots, events, remaining, item, event_type)
            ELSE ExportLoop(Tail(order),
                   [lots EXCEPT ![id].quantity_remaining = @ - take],
                   Append(events, InventoryEvent(event_type, item, id,
                                                       EventQuantity(take))),
                   remaining - take, item, event_type)

\* The rows of an export form; every exported row commits on its own.
RECURSIVE ExportRows(_, _, _)
ExportRows(txs, db, event_type) ==
  IF txs = <<>> THEN db
  ELSE LET tx == Head(txs)
           order == FifoLots(db.lots, tx.item_name)
           total_available == SumRemaining(db.lots, order)
           r == ExportLoop(order, db.lots, db.events, tx.qty, tx.item_name, event_type)
       IN IF tx.qty <= 0 THEN ExportRows(Tail(txs), db, event_type)
          ELSE IF tx.item_name \notin db.items THEN ExportRows(Tail(txs), db, event_type)
          ELSE IF total_available < tx.qty THEN ExportRows(Tail(txs), db, event_type)
          ELSE ExportRows(Tail(txs), [db EXCEPT !.lots = r.lots, !.events = r.events],
                          event_type)

HandleExport(txs, event_type) ==
  /\ run.phase = "idle"
  /\ LET db == ExportRows(txs, session, event_type)
     IN /\ session' = db
        /\ committed' = db
        /\ last' = NoCall
  /\ UNCHANGED <<gwvars, characters, remote, run, hist>>

HandleExportJanice(rows, event_type) ==
  /\ run.phase = "idle"
  /\ LET db == ExportRows(rows, session, event_type)
     IN /\ session' = db
        /\ committed' = db
        /\ last' = NoCall
  /\ UNCHANGED <<gwvars, characters, remote, run, hist>>

\* consume_lot_fifo called with either allow_partial value in a unit of work
\* of its own: committed when it returns, rolled back when it raises.
ServiceConsume(item, quantity, allow_partial) ==
  /\ run.phase = "idle"
  /\ LET r == consume_lot_fifo(session, item, quantity, "sale", allow_partial)
         db == IF r.raised = "none" THEN r.db ELSE committed
     IN /\ session' = db
        /\ committed' = db
        /\ last' = NoCall
  /\ UNCHANGED <<gwvars, characters, remote, run, hist>>

\* _record_import_from_tx: the lot of an applied queue entry.
record_import_from_tx(db, e) ==
  create_lot_from_import(db, e.item_id, e.quantity, e.unit_price, e.eve_time)

\* Entries that are no longer pending are passed over.
ReviewableAlways(e) == TRUE

Reviewable(e) == e.status = "pending"

\* The loop of wallet_queue_apply over the loaded entries.
RECURSIVE ApplyEntries(_, _, _)
ApplyEntries(entry_ids, db, action) ==
  IF entry_ids = <<>> THEN [raised |-> "none", db |-> db]
  ELSE LET k == Head(entry_ids)
           e == db.queue[k]
           r == record_import_from_tx(db, e)
       IN IF ~Reviewable(e) THEN ApplyEntries(Tail(entry_ids), db, action)
          ELSE IF action = "ignore" \/ e.direction # "import"
            THEN ApplyEntries(Tail(entry_ids),
                              [db EXCEPT !.queue[k].status = "ignored"], action)
          ELSE IF r.raised # "none" THEN [raised |-> r.raised, db |-> r.db]
          ELSE ApplyEntries(Tail(entry_ids),
                            [r.db EXCEPT !.queue[k].status = "applied"], action)

\* Selections of distinct queue entries, in the order the query returns them.
EntrySelections(queue) ==
  {<<k>> : k \in DOMAIN queue}
    \cup {<<p[1], p[2]>> : p \in {q \in (DOMAIN queue) \X (DOMAIN queue) : q[1] # q[2]}}

\* wallet_queue_apply: one commit after the loop.
WalletQueueApply(entry_ids, action) ==
  /\ run.phase = "idle"
  /\ Len(committed.lots) + Len(entry_ids) <= MaxLots
  /\ LET r == ApplyEntries(entry_ids, session, action)
         db == IF r.raised = "none" THEN r.db ELSE committed
     IN /\ session' = db
        /\ committed' = db
        /\ last' = [op |-> "queue_apply", raised |-> r.raised]
  /\ UNCHANGED <<gwvars, characters, remote, run, hist>>

\* The settings form rewrites both scan toggles of every character.
SaveSettings(toggles) ==
  /\ run.phase = "idle"
  /\ characters' = toggles
  /\ last' = NoCall
  /\ UNCHANGED <<gwvars, committed, session, remote, run, hist>>

Toggles == [wallet_scan_buys : BOOLEAN, wallet_scan_sells : BOOLEAN]

\* The reconciler, the review of its queue and the journal it reads.
Reconciler(limit) ==
  \/ \E c \in Chars, is_buy \in BOOLEAN, quantity \in 0..MaxQty,
        unit_price \in Prices, type_id \in Items, date \in Times :
       RemoteAppend(limit, c, is_buy, quantity, unit_price, type_id, date)
  \/ SyncSkipped
  \/ SyncFetch
  \/ SyncFetchFail
  \/ SyncTx
  \/ SyncTxFail
  \/ SyncFinish
  \/ Crash
  \/ \E entry_ids \in EntrySelections(committed.queue), action \in {"apply", "ignore"} :
       WalletQueueApply(entry_ids, action)
  \/ \E toggles \in [Chars -> Toggles] : SaveSettings(toggles)

\* The manual import and export forms and direct calls of the ledger service.
Manual ==
  \/ \E txs \in ImportRowSeqs : HandleImport(txs)
  \/ \E rows \in ImportRowSeqs, dt_now \in Times : HandleImportJanice(rows, dt_now)
  \/ \E txs \in ExportRowSeqs, event_type \in {"sale", "industry"} :
       HandleExport(txs, event_type)
  \/ \E rows \in ExportRowSeqs, event_type \in {"sale", "industry"} :
       HandleExportJanice(rows, event_type)
  \/ \E item \in Items, quantity \in 0..(MaxQty + 1), allow_partial \in BOOLEAN :
       ServiceConsume(item, quantity, allow_partial)

Next == Reconciler(MaxTx)

Spec == Init /\ [][Next]_vars

\* The whole inventory: the reconciler over a short journal together with the
\* manual forms.
NextInventory == Reconciler(InvMaxTx) \/ Manual

SpecInventory == Init /\ [][NextInventory]_vars

\* The gateway delivers the journal with one of its rows twice (overlapping
\* pages, a retried fetch).
SyncFetchDup ==
  /\ NextCharacter
  /\ LET c == Head(Todo)
     IN /\ characters[c].wallet_scan_buys \/ characters[c].wallet_scan_sells
        /\ \E k \in DOMAIN remote[c] :
             run' = StartLoop(c, remote[c] \o <<remote[c][k]>>)
  /\ last' = NoCall
  /\ UNCHANGED <<gwvars, committed, session, characters, remote, hist>>

\* The reconciler over a journal whose rows may be delivered twice.
NextDup == Reconciler(DupMaxTx) \/ SyncFetchDup

SpecDup == Init /\ [][NextDup]_vars

\* The review of the queue: buys and sells at several prices are reconciled,
\* runs fail, and the operator applies and ignores selections of entries,
\* again and again.
QueuePrices == 1..NumQueuePrices

NextQueue ==
  \/ \E c \in Chars, is_buy \in BOOLEAN, quantity \in 1..MaxQty,
        unit_price \in QueuePrices, type_id \in Items, date \in Times :
       RemoteAppend(QueueMaxTx, c, is_buy, quantity, unit_price, type_id, date)
  \/ SyncFetch
  \/ SyncTx
  \/ SyncTxFail
  \/ SyncFinish
  \/ \E entry_ids \in EntrySelections(committed.queue), action \in {"apply", "ignore"} :
       WalletQueueApply(entry_ids, action)
  \/ \E item \in Items, quantity \in 1..MaxQty, allow_partial \in BOOLEAN :
       ServiceConsume(item, quantity, allow_partial)

SpecQueue == Init /\ [][NextQueue]_vars

\* A journal of two rows: a buy of 10 at 5 with id 100 and a sell of 4 at 9
\* with id 101, of any items and dates; the store is empty and no cursor is
\* kept.
ScenarioJournal(buy_type, buy_date, sell_type, sell_date) ==
  <<WalletTx(100, TRUE, 10, 5, buy_type, buy_date),
    WalletTx(101, FALSE, 4, 9, sell_type, sell_date)>>

ScenarioDb == [EmptyDb EXCEPT !.applied = [t \in {100, 101} |-> 0]]

InitScenario ==
  /\ InitGateway
  /\ committed = ScenarioDb
  /\ session = ScenarioDb
  /\ characters = [c \in Chars |-> [wallet_scan_buys |-> TRUE, wallet_scan_sells |-> TRUE]]
  /\ \E buy_type, sell_type \in 1..NumScenarioItems, buy_date, sell_date \in 1..MaxScenarioTime :
       remote = [c \in Chars |-> ScenarioJournal(buy_type, buy_date, sell_type, sell_date)]
  /\ run = IdleRun
  /\ last = NoCall
  /\ hist = [calls |-> 0, effects |-> [t \in {100, 101} |-> NoEffect]]

\* The journal is reconciled, runs fail and are repeated, and the queue is
\* reviewed.
NextScenario ==
  \/ SyncFetch
  \/ SyncFetchFail
  \/ SyncTx
  \/ SyncTxFail
  \/ SyncFinish
  \/ \E k \in DOMAIN committed.queue, action \in {"apply", "ignore"} :
       WalletQueueApply(<<k>>, action)

SpecScenario == InitScenario /\ [][NextScenario]_vars

\* sync_character_wallet_once finds no linked character and raises
\* HTTPException(400).
Raised(exc) == [op |-> "sync_raised", raised |-> exc, per_character |-> Results]

SyncNoCharacters ==
  /\ run.phase = "idle"
  /\ characters = <<>>
  /\ last' = Raised("HTTPException")
  /\ UNCHANGED <<gwvars, committed, session, characters, remote, run, hist>>

\* A statement of the except branch itself raises (the rollback, the state
\* query, or the commit of the "error" status): the exception leaves
\* sync_character_wallet_once and the request's session is closed.
SyncFailUnrecorded ==
  /\ \/ /\ NextCharacter
        /\ characters[Head(Todo)].wallet_scan_buys
             \/ characters[Head(Todo)].wallet_scan_sells
     \/ run.phase = "loop"
  /\ session' = committed
  /\ last' = Raised("SQLAlchemyError")
  /\ run' = IdleRun
  /\ UNCHANGED <<gwvars, committed, characters, remote, hist>>

\* A character scanned on both sides or on none.
SweepToggles == {t \in Toggles : t.wallet_scan_buys = t.wallet_scan_sells}

\* No character or several are linked, each with an empty journal.
InitSweep ==
  /\ InitGateway
  /\ \E n \in {0, NumSweepChars} :
       /\ characters = [c \in 1..n |-> [wallet_scan_buys |-> TRUE, wallet_scan_sells |-> TRUE]]
       /\ remote = [c \in 1..n |-> <<>>]
       /\ committed = [EmptyDb EXCEPT !.sync = [c \in 1..n |-> NoSyncState]]
       /\ session = [EmptyDb EXCEPT !.sync = [c \in 1..n |-> NoSyncState]]
  /\ run = IdleRun
  /\ last = NoCall
  /\ hist = [calls |-> 0, effects |-> [t \in 1..MaxTx |-> NoEffect]]

(***************************************************************************)
(* The sweep over several characters whose runs fail, with the review of   *)
(* the queue and the settings form between sweeps.                         *)
(***************************************************************************)
NextSweep ==
  \/ \E c \in DOMAIN characters, is_buy \in BOOLEAN, quantity \in 1..MaxQty,
        unit_price \in Prices, type_id \in Items, date \in Times :
       RemoteAppend(SweepMaxTx, c, is_buy, quantity, unit_price, type_id, date)
  \/ SyncNoCharacters
  \/ SyncSkipped
  \/ SyncFetch
  \/ SyncFetchFail
  \/ SyncTx
  \/ SyncTxFail
  \/ SyncFinish
  \/ \E k \in DOMAIN committed.queue : WalletQueueApply(<<k>>, "apply")
  \/ \E toggles \in [DOMAIN characters -> SweepToggles] : SaveSettings(toggles)

SpecSweep == InitSweep /\ [][NextSweep]_vars

\* The same sweep when the except branch can fail too.
NextSweepUnrecorded == NextSweep \/ SyncFailUnrecorded

SpecSweepUnrecorded == InitSweep /\ [][NextSweepUnrecorded]_vars

(***************************************************************************)
(* Gateway: src/app/esi_client.py                                          *)
(***************************************************************************)

\* A header value that is present but is no integer.
Garbage == -2

\* sha256(access_token).hexdigest()[:12]: the digest is named by the token it
\* was computed from.
Digest(access_token) == access_token

\* _auth_identity
auth_identity(public, character, access_token) ==
  IF public THEN Identity("public", None)
  ELSE IF character # None THEN Identity("character", character)
  ELSE IF access_token # None THEN Identity("token", Digest(access_token))
  ELSE Identity("unknown", None)

\* The credential esi_get sends: none for a public call, else the explicit
\* token when one is given, else the character's own access token.
Credential(public, character, access_token) ==
  IF public THEN Identity("public", None)
  ELSE IF access_token # None THEN Identity("token", Digest(access_token))
  ELSE Identity("character", character)

\* _cache_key: the path stands for method, path and sorted parameters.
cache_key(path, identity) == <<path, identity>>

\* expires_at and expires_at <= datetime.utcnow()
ExpiredStrict(expires_at, now) == expires_at # None /\ expires_at < now

Expired(expires_at, now) == expires_at # None /\ expires_at <= now

\* _get_cached_response: an expired entry is dropped and not returned.
get_cached_response(c, key, now) ==
  IF ~c[key].present THEN [entry |-> NoEntry, cache |-> c]
  ELSE IF Expired(c[key].expires_at, now)
    THEN [entry |-> NoEntry, cache |-> [c EXCEPT ![key] = NoEntry]]
    ELSE [entry |-> c[key], cache |-> c]

\* if expires_at is None or expires_at <= datetime.utcnow(): return
StoresAnything(expires_at, now) == TRUE

Storable(expires_at, now) == ~(expires_at = None \/ expires_at <= now)

\* _store_cache_response
store_cache_response(c, key, data, expires_at, etag, now) ==
  IF Storable(expires_at, now)
    THEN [c EXCEPT ![key] = CacheEntry(data, expires_at, etag)]
    ELSE c

\* _extract_error_headers: a value that is no integer voids both.
extract_error_headers(remain, reset) ==
  IF remain = Garbage \/ reset = Garbage
    THEN [remain |-> None, reset |-> None]
    ELSE [remain |-> remain, reset |-> reset]

\* A default for an absent reset only.
OrIfNone(reset, default) == IF reset = None THEN default ELSE reset

\* Python's `reset or default`: None and 0 give the default.
Or(reset, default) == IF reset = None \/ reset = 0 THEN default ELSE reset

\* _schedule_error_pause: the new value of _error_pause_until.
schedule_error_pause(pause_until, seconds, now) == now + Seconds(Max(seconds, 1))

\* remain is not None and reset is not None and remain <= ERROR_LIMIT_THRESHOLD
LowWaterIgnored(remain, reset) == FALSE

LowWater(remain, reset) ==
  remain # None /\ reset # None /\ remain <= ERROR_LIMIT_THRESHOLD

\* A backoff that does not grow.
BackoffFlat(attempt) == BASE_BACKOFF_SECONDS

\* BASE_BACKOFF_SECONDS * (2 ** (attempt - 1))
Backoff(attempt) == BASE_BACKOFF_SECONDS * (2 ^ (attempt - 1))

\* A response of the remote API; status -1 is a transport failure
\* (httpx.RequestError).  expires is the parsed Expires header.
Response(status, remain, reset, expires, etag, data) ==
  [status |-> status, remain |-> remain, reset |-> reset, expires |-> expires,
   etag |-> etag, data |-> data]

\* A running esi_get call: its arguments, its locals (identity, cache_entry,
\* attempt), where it is suspended (pc, wake), the response on its way back
\* (resp), and what it has done so far (requests, token_posts, statuses,
\* retry_at, looked_up, dropped) and returned or raised (outcome..from_cache).
NewFetch(path, character, public, access_token_override, force_refresh) ==
  [IdleFetch EXCEPT
     !.pc = "start", !.path = path, !.character = character, !.public = public,
     !.token = access_token_override, !.force_refresh = force_refresh,
     !.identity = auth_identity(public, character, access_token_override),
     !.cred = Credential(public, character, access_token_override)]

\* The call returns data.
Return(f, data, status, from_cache) ==
  [f EXCEPT !.pc = "done", !.outcome = "data", !.data = data, !.status = status,
            !.from_cache = from_cache, !.entry = NoEntry, !.resp = NoResponse,
            !.wake = None]

\* The call raises; data is the response text an ESIClientError's message
\* is built from, when it is.
Raise(f, outcome, status, message, data) ==
  [f EXCEPT !.pc = "done", !.outcome = outcome, !.status = status,
            !.message = message, !.data = data, !.entry = NoEntry,
            !.resp = NoResponse, !.wake = None]

\* A wait that returns after its first sleep without looking again.
ClearanceOnce(f, pause_until, now) ==
  IF pause_until = None \/ now >= pause_until \/ f.pc = "paused"
    THEN [fetch |-> [f EXCEPT !.pc = "send", !.wake = None], pause |-> None]
    ELSE [fetch |-> [f EXCEPT !.pc = "paused", !.wake = pause_until],
          pause |-> pause_until]

\* _maybe_wait_for_error_window, up to its return or its sleep.
Clearance(f, pause_until, now) ==
  IF pause_until = None
    THEN [fetch |-> [f EXCEPT !.pc = "send", !.wake = None], pause |-> None]
  ELSE IF now >= pause_until
    THEN [fetch |-> [f EXCEPT !.pc = "send", !.wake = None], pause |-> None]
    ELSE [fetch |-> [f EXCEPT !.pc = "paused", !.wake = pause_until],
          pause |-> pause_until]

\* A turn of a loop that does not count its attempts.
AttemptUncounted(f, pause_until, now) ==
  Clearance([f EXCEPT !.attempt = 1], pause_until, now)

\* The head of one turn of `for attempt in range(1, MAX_RETRIES + 1)`.
Attempt(f, pause_until, now) ==
  Clearance([f EXCEPT !.attempt = @ + 1], pause_until, now)

\* esi_get from the cache lookup to the first suspension: a hit returns,
\* anything else enters _request_with_retries.
Lookup(f, c, pause_until, now) ==
  LET key == cache_key(f.path, f.identity)
      g == IF f.force_refresh THEN [entry |-> NoEntry, cache |-> c]
           ELSE get_cached_response(c, key, now)
      seen == [f EXCEPT !.looked_up = TRUE, !.dropped = (g.cache # c),
                        !.entry = g.entry]
      a == Attempt(seen, pause_until, now)
  IN IF g.entry.present /\ g.entry.data.version # 0
       THEN [fetch |-> Return(seen, g.entry.data, None, TRUE), cache |-> g.cache,
             pause |-> pause_until]
       ELSE [fetch |-> a.fetch, cache |-> g.cache, pause |-> a.pause]

\* await asyncio.sleep(BASE_BACKOFF_SECONDS * (2 ** (attempt - 1)))
Sleep(f, now) ==
  [f EXCEPT !.pc = "backoff", !.wake = now + Backoff(f.attempt),
            !.retry_at = now + Backoff(f.attempt), !.resp = NoResponse]

\* A message that never carries the response text.
ErrorMessageFixed(data) == "ESI request failed"

\* The message of the ESIClientError raised for a status >= 400:
\* resp.text or "ESI request failed".
ErrorMessage(data) == IF data.version = 0 THEN "ESI request failed" ELSE "body"


\* A retry is given up one attempt early.
LastAllowedEarly(attempt) == attempt >= MAX_RETRIES - 1

\* `if attempt == MAX_RETRIES`: the attempt is the final allowed one.
LastAllowed(attempt) == attempt = MAX_RETRIES

\* _request_with_retries from the receipt of a response to its return, raise
\* or backoff sleep, followed by the tail of esi_get when it returns.
Handle(f, c, pause_until, now) ==
  LET resp == f.resp
      key == cache_key(f.path, f.identity)
      got == [f EXCEPT !.statuses = Append(@, resp.status)]
      h == extract_error_headers(resp.remain, resp.reset)
      low == IF LowWater(h.remain, h.reset)
               THEN schedule_error_pause(pause_until, h.reset, now)
               ELSE pause_until
  IN IF resp.status = -1
       THEN [fetch |-> IF LastAllowed(f.attempt)
                         THEN Raise(got, "ESIClientError", -1, "transport", got.data)
                         ELSE Sleep(got, now),
             cache |-> c, pause |-> pause_until]
     ELSE IF resp.status = 304 /\ f.entry.present
       THEN [fetch |-> Return(got, f.entry.data, 304, FALSE),
             cache |-> store_cache_response(c, key, f.entry.data,
                         IF resp.expires # None THEN resp.expires
                                                ELSE f.entry.expires_at,
                         f.entry.etag, now),
             pause |-> low]
     ELSE IF resp.status = 420
       THEN [fetch |-> Raise(got, "ESIThrottleError", 420,
                             "ESI error-limit reached", got.data),
             cache |-> c,
             pause |-> schedule_error_pause(low, Or(h.reset, 60), now)]
     ELSE IF resp.status = 429
       THEN [fetch |-> IF LastAllowed(f.attempt)
                         THEN Raise(got, "ESIThrottleError", 429,
                                    "ESI rate limit reached", got.data)
                         ELSE Sleep(got, now),
             cache |-> c,
             pause |-> schedule_error_pause(low, Or(h.reset, 10), now)]
     ELSE IF 500 <= resp.status /\ resp.status < 600
       THEN [fetch |-> IF LastAllowed(f.attempt)
                         THEN Raise(got, "ESIClientError", resp.status,
                                    "ESI server error", got.data)
                         ELSE Sleep(got, now),
             cache |-> c, pause |-> low]
     ELSE IF resp.status >= 400
       THEN [fetch |-> Raise(got, "ESIClientError", resp.status,
                             ErrorMessage(resp.data), resp.data),
             cache |-> c, pause |-> low]
     ELSE IF resp.status = 304
       THEN [fetch |-> Raise(got, "JSONDecodeError", 304, "no body", got.data),
             cache |-> c, pause |-> low]
       ELSE [fetch |-> Return(got, resp.data, resp.status, FALSE),
             cache |-> IF resp.expires # None
                         THEN store_cache_response(c, key, resp.data,
                                                   resp.expires, resp.etag, now)
                         ELSE c,
             pause |-> low]

\* timedelta(seconds=60), the safety margin of a cached access token.
TOKEN_MARGIN == Seconds(60)

\* expires_in values the token endpoint answers with, in seconds: one inside
\* the safety margin, one just beyond it, and the default of 20 minutes.
ExpiresIn == {30, 61, 1200}

\* The header values and bodies the remote API answers with.
\* X-ESI-Error-Limit-Remain and X-ESI-Error-Limit-Reset as <<remain, reset>>:
\* both absent, a remain that is no integer, a remain below the threshold,
\* and a remain at and just above it with a reset of 0 and of ResetSeconds.
BudgetHeaders ==
  {<<None, None>>, <<Garbage, ResetSeconds>>,
   <<ERROR_LIMIT_THRESHOLD - 1, ResetSeconds>>,
   <<ERROR_LIMIT_THRESHOLD, 0>>, <<ERROR_LIMIT_THRESHOLD, ResetSeconds>>,
   <<ERROR_LIMIT_THRESHOLD + 1, 0>>, <<ERROR_LIMIT_THRESHOLD + 1, ResetSeconds>>}
\* What the parsed Expires header of a response received about now can be:
\* absent or unparseable, not in the future, in the future.
Expiries(now) == {None, now, now + TtlTicks}

\* Answers of an API that never throttles, to a request sent with credential
\* cred: bodies with and without expiry and revalidation tag, client errors,
\* and 304 to a request carrying If-None-Match.
CacheResponses(f, now) ==
  {Response(200, None, None, ex, et, Body(f.cred, v)) :
     ex \in Expiries(now), et \in {None, 1}, v \in 0..NumData}
  \cup {Response(404, None, None, None, None, Body(f.cred, v)) : v \in 0..NumData}
  \cup (IF f.entry.present /\ f.entry.etag # None
          THEN {Response(304, None, None, ex, None, Body(f.cred, 0)) : ex \in Expiries(now)}
          ELSE {})

\* Answers of an API that fails and throttles: transport failures (status -1,
\* no headers), 420, 429, 5xx and 4xx with each pair of budget headers, and
\* plain answers with and without an expiry.
RetryResponses(f, now) ==
  {Response(-1, None, None, None, None, Body(f.cred, 0))}
  \cup {Response(st, h[1], h[2], None, None, Body(f.cred, 0)) :
          st \in {420, 429, 500}, h \in BudgetHeaders}
  \cup {Response(404, h[1], h[2], None, None, Body(f.cred, v)) :
          h \in BudgetHeaders, v \in 0..NumData}
  \cup {Response(200, h[1], h[2], ex, None, Body(f.cred, 1)) :
          h \in BudgetHeaders, ex \in {None, now + TtlTicks}}

\* Responses of a throttling API: plain answers and 420s, with and without a
\* short reset.
ThrottleResponses(f, now) ==
  {Response(st, rm, rs, None, None, Body(f.cred, 1)) :
     st \in {200, 420}, rm \in {None, ERROR_LIMIT_THRESHOLD},
     rs \in {None, ResetSeconds}}

IsInt(v) == v # None /\ v # Garbage

\* esi_get is called with the character its caller loaded: up to
\* `await _get_compat_date(db)`.
esi_get(p, path, character, public, access_token_override, force_refresh, limit) ==
  /\ fetches[p].pc \in {"idle", "done"}
  /\ net.started < limit
  /\ fetches' = [fetches EXCEPT ![p] =
        [NewFetch(path, character, public, access_token_override, force_refresh)
           EXCEPT !.refresh_token = IF character = None THEN None
                                    ELSE creds.refresh_token[character]]]
  /\ net' = [net EXCEPT !.started = @ + 1]
  /\ UNCHANGED <<ledgervars, creds, clock, cache, error_pause_until, token_cache>>

\* The cached access token of get_access_token: usable while more than the
\* safety margin is left.
TokenLive(cached, now) == cached.present /\ cached.expires_at - TOKEN_MARGIN > now

\* get_access_token returns a token expiring at expires_at.
Granted(f, expires_at, now) == [f EXCEPT !.token_left = expires_at - now]

\* esi_get resolves the credential: none for a public call, the explicit
\* token, or get_access_token, which raises without a client identity, answers
\* from _token_cache, raises without a refresh token, or posts to the token
\* endpoint.  Without a suspension it goes on to the cache lookup.
Resolve(p) ==
  LET f == fetches[p]
      cached == token_cache[f.character]
      r == Lookup(f, cache, error_pause_until, clock)
      hit == Lookup(Granted(f, cached.expires_at, clock), cache, error_pause_until, clock)
  IN /\ f.pc = "start"
     /\ IF ~f.public /\ f.token = None /\ f.character = None
          THEN /\ fetches' = [fetches EXCEPT ![p] =
                    Raise(f, "RuntimeError", None, "character must be provided", f.data)]
               /\ UNCHANGED <<cache, error_pause_until>>
        ELSE IF f.public \/ f.token # None
          THEN /\ fetches' = [fetches EXCEPT ![p] = r.fetch]
               /\ cache' = r.cache
               /\ error_pause_until' = r.pause
        ELSE IF ~creds.client
          THEN /\ fetches' = [fetches EXCEPT ![p] =
                    Raise(f, "RuntimeError", None, "client id and secret must be set", f.data)]
               /\ UNCHANGED <<cache, error_pause_until>>
        ELSE IF TokenLive(cached, clock)
          THEN /\ fetches' = [fetches EXCEPT ![p] = hit.fetch]
               /\ cache' = hit.cache
               /\ error_pause_until' = hit.pause
        ELSE IF f.refresh_token = None
          THEN /\ fetches' = [fetches EXCEPT ![p] =
                    Raise(f, "RuntimeError", None, "no refresh token stored", f.data)]
               /\ UNCHANGED <<cache, error_pause_until>>
          ELSE /\ fetches' = [fetches EXCEPT ![p] =
                    [f EXCEPT !.pc = "token_post", !.token_posts = @ + 1]]
               /\ UNCHANGED <<cache, error_pause_until>>
     /\ UNCHANGED <<ledgervars, creds, clock, token_cache, net>>

\* The refresh tokens an exchange can answer with: the one it was sent (or
\* none, which reads as the same) or a rotated one.
Rotations(f) ==
  {f.refresh_token} \cup (IF creds.issued < MaxRefresh THEN {creds.issued + 1} ELSE {})

\* The token endpoint answers get_access_token's POST: raise_for_status
\* raises; a rotated refresh token is set on the character and the call waits
\* for `await db.commit()`; otherwise the token is cached and esi_get goes on
\* to the cache lookup.
TokenResponse(p, ok, expires_in, refresh_token) ==
  LET f == fetches[p]
      expires_at == clock + Seconds(expires_in)
      r == Lookup(Granted(f, expires_at, clock), cache, error_pause_until, clock)
  IN /\ f.pc = "token_post"
     /\ refresh_token \in Rotations(f)
     /\ IF ~ok
          THEN /\ fetches' = [fetches EXCEPT ![p] =
                    Raise(f, "HTTPStatusError", None, "token endpoint", f.data)]
               /\ UNCHANGED <<token_cache, cache, error_pause_until, creds>>
        ELSE IF refresh_token # f.refresh_token
          THEN /\ fetches' = [fetches EXCEPT ![p] =
                    [f EXCEPT !.pc = "token_commit", !.new_refresh = refresh_token,
                              !.expires_in = expires_in]]
               /\ creds' = [creds EXCEPT !.issued = refresh_token]
               /\ UNCHANGED <<token_cache, cache, error_pause_until>>
          ELSE /\ token_cache' = [token_cache EXCEPT ![f.character] =
                    TokenEntry(expires_at, refresh_token)]
               /\ fetches' = [fetches EXCEPT ![p] = r.fetch]
               /\ cache' = r.cache
               /\ error_pause_until' = r.pause
               /\ UNCHANGED creds
     /\ UNCHANGED <<ledgervars, clock, net>>

\* The refresh_token column of character c holds refresh_token durably.
RotateSkipped(cr, c, refresh_token) == cr

Rotate(cr, c, refresh_token) ==
  [cr EXCEPT !.refresh_token[c] = refresh_token,
             !.persisted[c] = IF refresh_token = None THEN @ ELSE @ \cup {refresh_token}]

\* `await db.commit()` of the rotation: the caller's session is committed with
\* the character's new refresh token, or the commit raises.
TokenCommit(p, ok) ==
  LET f == fetches[p]
  IN /\ f.pc = "token_commit"
     /\ IF ok
          THEN /\ creds' = Rotate(creds, f.character, f.new_refresh)
               /\ committed' = session
               /\ fetches' = [fetches EXCEPT ![p] = [f EXCEPT !.pc = "token_refresh"]]
          ELSE /\ fetches' = [fetches EXCEPT ![p] =
                    Raise(f, "SQLAlchemyError", None, "commit", f.data)]
               /\ UNCHANGED <<creds, committed>>
     /\ UNCHANGED <<session, characters, remote, run, last, hist,
                    clock, cache, error_pause_until, token_cache, net>>

\* `await db.refresh(character)` returns: the token is cached and esi_get goes
\* on to the cache lookup.
TokenRefreshed(p) ==
  LET f == fetches[p]
      expires_at == clock + Seconds(f.expires_in)
      g == [f EXCEPT !.refresh_token = creds.refresh_token[f.character]]
      r == Lookup(Granted(g, expires_at, clock), cache, error_pause_until, clock)
  IN /\ f.pc = "token_refresh"
     /\ token_cache' = [token_cache EXCEPT ![f.character] =
           TokenEntry(expires_at, f.new_refresh)]
     /\ fetches' = [fetches EXCEPT ![p] = r.fetch]
     /\ cache' = r.cache
     /\ error_pause_until' = r.pause
     /\ UNCHANGED <<ledgervars, creds, clock, net>>

\* The SSO callback of auth.py links character c again: its refresh token
\* becomes the one the code exchange answered with, or none, and the
\* callback's session is committed.
Relink(c, refresh_token) ==
  /\ refresh_token \in {None} \cup (IF creds.issued < MaxRefresh THEN {creds.issued + 1} ELSE {})
  /\ creds' = [Rotate(creds, c, refresh_token) EXCEPT
                 !.issued = IF refresh_token = None THEN @ ELSE refresh_token]
  /\ UNCHANGED <<ledgervars, clock, cache, error_pause_until, token_cache, fetches, net>>

\* The process dies and starts again: the module-level caches are empty, the
\* calls in progress and their sessions are gone, and CLIENT_ID and
\* CLIENT_SECRET are read from the environment, set or not.
Restart(client) ==
  /\ creds.restarts < MaxRestarts
  /\ creds' = [creds EXCEPT !.client = client, !.restarts = @ + 1]
  /\ cache' = [k \in Paths \X Identities |-> NoEntry]
  /\ error_pause_until' = None
  /\ token_cache' = [c \in Principals |-> NoToken]
  /\ fetches' = [p \in Procs |-> IdleFetch]
  /\ session' = committed
  /\ run' = IdleRun
  /\ last' = NoCall
  /\ UNCHANGED <<committed, characters, remote, hist, clock, net>>

\* The sleep of _maybe_wait_for_error_window ends and its loop checks again.
WakePaused(p) ==
  LET f == fetches[p]
      r == Clearance(f, error_pause_until, clock)
  IN /\ f.pc = "paused"
     /\ clock >= f.wake
     /\ fetches' = [fetches EXCEPT ![p] =
           IF r.fetch.pc = "paused" THEN [r.fetch EXCEPT !.resleeps = @ + 1]
                                    ELSE r.fetch]
     /\ error_pause_until' = r.pause
     /\ UNCHANGED <<ledgervars, creds, clock, cache, token_cache, net>>

\* `await client.request(...)`: the call was cleared and is suspended in the
\* HTTP client (waiting for a pooled connection or connecting) until its
\* request goes out here; resp is the answer on its way.  Nothing looks at
\* _error_pause_until again between the clearance and this step.
Send(p, resp) ==
  LET f == fetches[p]
  IN /\ f.pc = "send"
     /\ fetches' = [fetches EXCEPT ![p] =
           [f EXCEPT !.pc = "inflight", !.resp = resp, !.requests = @ + 1]]
     /\ net' = [net EXCEPT !.requests = @ + 1]
     /\ UNCHANGED <<ledgervars, creds, clock, cache, error_pause_until, token_cache>>

\* The answer arrives and is handled up to the next suspension.
Receive(p) ==
  LET f == fetches[p]
      r == Handle(f, cache, error_pause_until, clock)
      low == IsInt(f.resp.remain) /\ IsInt(f.resp.reset)
             /\ f.resp.remain <= ERROR_LIMIT_THRESHOLD
  IN /\ f.pc = "inflight"
     /\ fetches' = [fetches EXCEPT ![p] = r.fetch]
     /\ cache' = r.cache
     /\ error_pause_until' = r.pause
     /\ net' = IF low
                 THEN [net EXCEPT !.low_until = clock + Seconds(Max(f.resp.reset, 1)),
                                  !.low_status = f.resp.status,
                                  !.low_remain = f.resp.remain]
                 ELSE net
     /\ UNCHANGED <<ledgervars, creds, clock, token_cache>>

\* A backoff sleep ends and the next attempt begins with its clearance wait.
WakeBackoff(p) ==
  LET f == fetches[p]
      r == Attempt(f, error_pause_until, clock)
  IN /\ f.pc = "backoff"
     /\ clock >= f.wake
     /\ fetches' = [fetches EXCEPT ![p] = r.fetch]
     /\ error_pause_until' = r.pause
     /\ UNCHANGED <<ledgervars, creds, clock, cache, token_cache, net>>

\* The calls asleep until a later time.
Sleeping == {p \in Procs : fetches[p].pc \in {"paused", "backoff"} /\ fetches[p].wake > clock}

\* Time passes: half a second, or up to the time a sleeping call wakes.
Tick(t) ==
  /\ \/ t = clock + 1 /\ clock < MaxIdleClock
     \/ \E p \in Sleeping : t = fetches[p].wake
  /\ clock' = t
  /\ UNCHANGED <<ledgervars, creds, cache, error_pause_until, token_cache, fetches, net>>

Ticks == {clock + 1} \cup {fetches[p].wake : p \in Sleeping}

\* The ways esi_get is called: public, for a character, with an explicit
\* token, and the combinations its optional parameters allow.
Calls(p, limit) ==
  \E path \in Paths, character \in Principals \cup {None}, public \in BOOLEAN,
     access_token_override \in Tokens \cup {None}, force_refresh \in BOOLEAN :
    esi_get(p, path, character, public, access_token_override, force_refresh, limit)

\* Public calls only.
PublicCalls(p, limit) ==
  \E path \in Paths, force_refresh \in BOOLEAN :
    esi_get(p, path, None, TRUE, None, force_refresh, limit)

(***************************************************************************)
(* One caller, every way of calling, an API that never throttles.          *)
(***************************************************************************)
NextCache ==
  \/ Calls(1, MaxFetches)
  \/ Resolve(1)
  \/ \E ok \in BOOLEAN, expires_in \in ExpiresIn :
       TokenResponse(1, ok, expires_in, fetches[1].refresh_token)
  \/ \E resp \in CacheResponses(fetches[1], clock) : Send(1, resp)
  \/ Receive(1)
  \/ \E t \in Ticks : Tick(t)

SpecCache == Init /\ [][NextCache]_vars

\* Calls for a character with its stored credential.
CharacterCalls(p, limit) ==
  \E path \in Paths, character \in Principals, force_refresh \in BOOLEAN :
    esi_get(p, path, character, FALSE, None, force_refresh, limit)

\* Answers of an API that neither throttles nor lets responses be cached.
PlainResponses(f, now) ==
  {Response(st, None, None, None, None, Body(f.cred, 1)) : st \in {200, 404}}

(***************************************************************************)
(* The credential manager: one caller for the linked characters, a token   *)
(* endpoint that rotates refresh tokens, commits that fail, characters     *)
(* linked again and a process that restarts.                               *)
(***************************************************************************)
NextToken ==
  \/ CharacterCalls(1, MaxTokenFetches)
  \/ Resolve(1)
  \/ \E ok \in BOOLEAN, expires_in \in ExpiresIn, refresh_token \in Rotations(fetches[1]) :
       TokenResponse(1, ok, expires_in, refresh_token)
  \/ \E ok \in BOOLEAN : TokenCommit(1, ok)
  \/ TokenRefreshed(1)
  \/ \E resp \in PlainResponses(fetches[1], clock) : Send(1, resp)
  \/ Receive(1)
  \/ \E c \in Principals, refresh_token \in {None} \cup (1..MaxRefresh) : Relink(c, refresh_token)
  \/ \E client \in BOOLEAN : Restart(client)
  \/ \E t \in Ticks : Tick(t)

SpecToken == Init /\ [][NextToken]_vars

(***************************************************************************)
(* One caller of public paths, an API that fails and throttles.  A call    *)
(* that retried is the last one.                                           *)
(***************************************************************************)
NextRetry ==
  \/ net.requests <= MaxPriorRequests /\ PublicCalls(1, MaxFetches)
  \/ Resolve(1)
  \/ WakePaused(1)
  \/ \E resp \in RetryResponses(fetches[1], clock) : Send(1, resp)
  \/ Receive(1)
  \/ WakeBackoff(1)
  \/ \E t \in Ticks : Tick(t)

SpecRetry == Init /\ [][NextRetry]_vars

(***************************************************************************)
(* One public call followed to its end under a failing and throttling API. *)
(* The event loop resumes a coroutine that can run, every request is       *)
(* answered or times out (httpx.Timeout(20.0)), and time passes.           *)
(***************************************************************************)
NextRetryOnce ==
  \/ PublicCalls(1, SingleFetch)
  \/ Resolve(1)
  \/ WakePaused(1)
  \/ \E resp \in RetryResponses(fetches[1], clock) : Send(1, resp)
  \/ Receive(1)
  \/ WakeBackoff(1)
  \/ \E t \in Ticks : Tick(t)

SpecRetryFair ==
  /\ Init /\ [][NextRetryOnce]_vars
  /\ WF_vars(Resolve(1))
  /\ WF_vars(WakePaused(1))
  /\ WF_vars(\E resp \in RetryResponses(fetches[1], clock) : Send(1, resp))
  /\ WF_vars(Receive(1))
  /\ WF_vars(WakeBackoff(1))
  /\ WF_vars(\E t \in Ticks : Tick(t))

(***************************************************************************)
(* Two callers of public paths whose calls overlap, a throttling API.      *)
(***************************************************************************)
NextConcurrent ==
  \/ \E p \in Procs : PublicCalls(p, MaxConcurrent)
  \/ \E p \in Procs : Resolve(p)
  \/ \E p \in Procs : WakePaused(p)
  \/ \E p \in Procs : \E resp \in ThrottleResponses(fetches[p], clock) : Send(p, resp)
  \/ \E p \in Procs : Receive(p)
  \/ \E t \in Ticks : Tick(t)

SpecConcurrent == Init /\ [][NextConcurrent]_vars

(***************************************************************************)
(* Ledger properties, checked under SpecLedger                             *)
(***************************************************************************)

\* Sum of quantity_remaining over every lot of an item, by lot id.
RECURSIVE AvailableUpTo(_, _, _)
AvailableUpTo(lots, item, n) ==
  IF n = 0 THEN 0
  ELSE AvailableUpTo(lots, item, n - 1)
       + (IF lots[n].item_id = item THEN lots[n].quantity_remaining ELSE 0)

AvailableOf(lots, item) == AvailableUpTo(lots, item, Len(lots))

\* Lot x precedes lot y in acquisition order, ties broken by insertion order.
Earlier(lots, x, y) ==
  \/ lots[x].acquired_at < lots[y].acquired_at
  \/ (lots[x].acquired_at = lots[y].acquired_at /\ x < y)

DecrementedByCall(i) ==
  /\ i \in DOMAIN last.pre.lots
  /\ session.lots[i].quantity_remaining < last.pre.lots[i].quantity_remaining

ConsumeReturned == last.op = "consume" /\ last.raised = "none"

\* Two lots of 5 of item 1: the older one (acquired at 1) and the newer one
\* (acquired at 2), inserted in either order.
OlderFirstDb ==
  create_lot_from_import(create_lot_from_import(EmptyDb, 1, 5, 1, 1).db, 1, 5, 1, 2).db

NewerFirstDb ==
  create_lot_from_import(create_lot_from_import(EmptyDb, 1, 5, 1, 2).db, 1, 5, 1, 1).db

\* C7: a consume call decrements only lots of its item, and a lot only if
\* every lot of that item earlier in (acquired_at, id) order is at zero after
\* the call; lots of 5 (older) and 5 (newer) consumed by 7 leave 0 and 3.
C7_FifoOrder ==
  /\ ConsumeReturned =>
       \A i \in DOMAIN session.lots :
         DecrementedByCall(i) =>
           /\ session.lots[i].item_id = last.item
           /\ \A j \in DOMAIN session.lots :
                (session.lots[j].item_id = last.item /\ Earlier(session.lots, j, i))
                  => session.lots[j].quantity_remaining = 0
  /\ LET r == consume_lot_fifo(OlderFirstDb, 1, 7, "sale", FALSE)
     IN /\ r.raised = "none" /\ r.consumed = 7
        /\ r.db.lots[1].quantity_remaining = 0
        /\ r.db.lots[2].quantity_remaining = 3
  /\ LET r == consume_lot_fifo(NewerFirstDb, 1, 7, "sale", TRUE)
     IN /\ r.raised = "none" /\ r.consumed = 7
        /\ r.db.lots[2].quantity_remaining = 0
        /\ r.db.lots[1].quantity_remaining = 3

\* A call that drained an older lot of larger id and went on into a newer lot
\* of smaller id.
C7_Witness ==
  /\ ConsumeReturned
  /\ \E i, j \in DOMAIN last.pre.lots :
       /\ i < j
       /\ session.lots[j].acquired_at < session.lots[i].acquired_at
       /\ DecrementedByCall(i) /\ DecrementedByCall(j)
       /\ session.lots[i].quantity_remaining > 0

\* C8: a strict consume call asking for more than the item has raises
\* InsufficientInventoryError with the requested and available amounts and
\* leaves every lot and the event log as they were (12 asked of 10 included).
C8_StrictShortage ==
  /\ ( /\ last.op = "consume"
       /\ ~last.allow_partial
       /\ last.quantity > AvailableOf(last.pre.lots, last.item) )
     => /\ last.raised = "InsufficientInventoryError"
        /\ last.requested = last.quantity
        /\ last.available = AvailableOf(last.pre.lots, last.item)
        /\ session.lots = last.pre.lots
        /\ session.events = last.pre.events
  /\ LET r == consume_lot_fifo(OlderFirstDb, 1, 12, "sale", FALSE)
     IN /\ r.raised = "InsufficientInventoryError"
        /\ r.requested = 12 /\ r.available = 10
        /\ r.db = OlderFirstDb

\* A strict call refused although the item had stock in two lots.
C8_Witness ==
  /\ last.op = "consume"
  /\ ~last.allow_partial
  /\ last.raised = "InsufficientInventoryError"
  /\ Len(FifoLots(last.pre.lots, last.item)) = 2
  /\ last.quantity > AvailableOf(last.pre.lots, last.item)

\* C9: a partial consume call for q > 0 never raises, returns
\* consumed = min(q, available before), unmatched = q - consumed, and lowers
\* the item's summed quantity_remaining by exactly consumed.
C9_PartialConsume ==
  ( /\ last.op = "consume"
    /\ last.allow_partial
    /\ last.quantity > 0 )
  => LET before == AvailableOf(last.pre.lots, last.item)
     IN /\ last.raised = "none"
        /\ last.consumed = Min(last.quantity, before)
        /\ last.remaining_request = last.quantity - last.consumed
        /\ AvailableOf(session.lots, last.item) = before - last.consumed

\* A partial call that took something and still fell short.
C9_Witness ==
  /\ last.op = "consume"
  /\ last.allow_partial
  /\ last.consumed > 0
  /\ last.remaining_request > 0

(***************************************************************************)
(* Inventory property, checked under SpecInventory                         *)
(***************************************************************************)

LotWithinBounds(lot) ==
  0 <= lot.quantity_remaining /\ lot.quantity_remaining <= lot.quantity_total

\* C1: in every reachable state, committed or inside a unit of work, every
\* inventory lot satisfies 0 <= quantity_remaining <= quantity_total, whatever
\* creations (imports, applied queue entries) and FIFO consumptions (wallet
\* sales, exports, consume_lot_fifo with either allow_partial) came before.
C1_LotBounds ==
  \A db \in {committed, session} :
    \A id \in DOMAIN db.lots : LotWithinBounds(db.lots[id])

\* A lot partly consumed, another emptied by an export.
C1_Witness ==
  /\ \E id \in DOMAIN committed.lots : committed.lots[id].quantity_remaining = 0
  /\ \E id \in DOMAIN committed.lots :
       /\ committed.lots[id].quantity_remaining > 0
       /\ committed.lots[id].quantity_remaining < committed.lots[id].quantity_total

(***************************************************************************)
(* Reconciler properties, checked under Spec                               *)
(***************************************************************************)

Cursor(db, c) == db.sync[c].last_transaction_id

\* Queue entries of the key (character, transaction id).
EntriesOf(queue, c, tx_id) ==
  {k \in DOMAIN queue :
     queue[k].character_id = c /\ queue[k].transaction_id = tx_id}

\* The step ends a run of sync_character_wallet_once with the given status.
RunEndsWith(status) == last'.op = "sync" /\ last'.sync_status = status

AboveCursor(last_id, tx) == last_id = None \/ tx.transaction_id > last_id

SideEnabled(flags, tx) ==
  IF tx.is_buy THEN flags.wallet_scan_buys ELSE flags.wallet_scan_sells

LedgerAndQueueKept ==
  /\ committed'.lots = committed.lots
  /\ committed'.events = committed.events
  /\ committed'.queue = committed.queue
  /\ committed'.applied = committed.applied

AtMostOnce(db) ==
  /\ \A t \in 1..MaxTx : db.applied[t] <= 1
  /\ \A c \in Chars, t \in 1..MaxTx : Cardinality(EntriesOf(db.queue, c, t)) <= 1

\* When a run ends ok, every transaction it fetched above its cursor with a
\* positive quantity and its side enabled has one committed application.
OkRunApplies ==
  RunEndsWith("ok") =>
    \A k \in DOMAIN remote[run.ch] :
      LET tx == remote[run.ch][k]
      IN (tx.quantity > 0 /\ AboveCursor(run.last_id, tx)
            /\ SideEnabled(characters[run.ch], tx))
           => IF tx.is_buy
                THEN Cardinality(EntriesOf(committed'.queue, run.ch,
                                           tx.transaction_id)) = 1
                ELSE committed'.applied[tx.transaction_id] = 1

AppliedStays ==
  /\ \A t \in 1..MaxTx : committed'.applied[t] >= committed.applied[t]
  /\ \A c \in Chars, t \in 1..MaxTx :
       EntriesOf(committed.queue, c, t) \subseteq EntriesOf(committed'.queue, c, t)

\* C2: over any sequence of runs for a character, completing, failing or
\* dying part-way, against the append-only journal, a sell transaction is
\* applied to the ledger at most once and a buy transaction has at most one
\* queue entry; when a run ends ok, each transaction it fetched above its
\* cursor (positive quantity, its side enabled) is committed exactly once, and
\* nothing committed is applied again or taken back afterwards.
C2_ExactlyOnce ==
  /\ [](AtMostOnce(committed) /\ AtMostOnce(session))
  /\ [][OkRunApplies /\ AppliedStays]_vars

\* An ok run that handled one new sale while an earlier one stays applied
\* once.
C2_Witness ==
  /\ last.op = "sync" /\ last.sync_status = "ok"
  /\ last.new_transactions = 1 /\ last.auto_sales = 1
  /\ \E j, k \in DOMAIN remote[1] :
       /\ j < k
       /\ ~remote[1][j].is_buy /\ ~remote[1][k].is_buy
       /\ committed.applied[remote[1][j].transaction_id] = 1
       /\ committed.applied[remote[1][k].transaction_id] = 1

\* Nothing of the fetched journal is above the loaded cursor.
Replay ==
  /\ run.last_id # None
  /\ \A k \in DOMAIN remote[run.ch] :
       remote[run.ch][k].transaction_id <= run.last_id
         \/ remote[run.ch][k].quantity <= 0

\* C3: a run over an unchanged journal whose transactions are all at or below
\* the stored cursor reports new_transactions = queued_imports = auto_sales
\* = 0 and leaves every lot, event, queue entry and the cursor unchanged.
C3_ReplayIdempotent ==
  [][(RunEndsWith("ok") /\ Replay) =>
       /\ last'.new_transactions = 0
       /\ last'.queued_imports = 0
       /\ last'.auto_sales = 0
       /\ LedgerAndQueueKept
       /\ Cursor(committed', run.ch) = Cursor(committed, run.ch)]_vars

\* A replay has ended ok over a journal with a consumed sale and a queued buy.
C3_Witness ==
  /\ last.op = "sync" /\ last.sync_status = "ok"
  /\ last.new_transactions = 0
  /\ last.skipped_buys_disabled = 0 /\ last.skipped_sells_disabled = 0
  /\ \E j, k \in DOMAIN remote[1] :
       /\ remote[1][j].is_buy /\ remote[1][j].quantity > 0
       /\ EntriesOf(committed.queue, 1, remote[1][j].transaction_id) # {}
       /\ ~remote[1][k].is_buy /\ remote[1][k].quantity > 0
       /\ committed.applied[remote[1][k].transaction_id] = 1
  /\ Cursor(committed, 1) >= 2

\* C4: no step, whether a run ends ok, skipped or in error, lowers the stored
\* last_transaction_id of a character (NULL is below every id).
C4_CursorMonotonic ==
  [][\A c \in Chars : Cursor(committed', c) >= Cursor(committed, c)]_vars

\* An error run after the cursor had advanced past two transactions.
C4_Witness ==
  /\ last.op = "sync" /\ last.sync_status = "error"
  /\ Cursor(committed, 1) >= 2

RECURSIVE ClaimedUpTo(_, _)
ClaimedUpTo(c, n) ==
  IF n = 0 THEN 0
  ELSE LET tx == remote[c][n]
           e == hist.effects[tx.transaction_id]
       IN ClaimedUpTo(c, n - 1)
            + (IF e.touched /\ tx.transaction_id <= Cursor(committed, c)
                 THEN e.consumed ELSE 0)

RECURSIVE SaleUnitsUpTo(_, _)
SaleUnitsUpTo(events, n) ==
  IF n = 0 THEN 0
  ELSE SaleUnitsUpTo(events, n - 1)
         + (IF events[n].event_type = "sale" THEN events[n].quantity ELSE 0)

RECURSIVE DecrementsUpTo(_, _)
DecrementsUpTo(lots, n) ==
  IF n = 0 THEN 0
  ELSE DecrementsUpTo(lots, n - 1)
         + (lots[n].quantity_total - lots[n].quantity_remaining)

\* C6: in every committed state, each transaction a run enqueued or consumed
\* whose id is at or below the stored cursor has its queue entry or its sale
\* committed, and the units those runs took are covered by committed sale
\* events and lot decrements; a run that dies or fails leaves no cursor ahead
\* of them.
C6_CursorNotAhead ==
  \A c \in Chars :
    /\ \A k \in DOMAIN remote[c] :
         LET tx == remote[c][k]
             e == hist.effects[tx.transaction_id]
         IN (e.touched /\ tx.transaction_id <= Cursor(committed, c))
              => IF e.queued
                   THEN EntriesOf(committed.queue, c, tx.transaction_id) # {}
                   ELSE committed.applied[tx.transaction_id] >= 1
    /\ ClaimedUpTo(c, Len(remote[c])) <= SaleUnitsUpTo(committed.events, Len(committed.events))
    /\ ClaimedUpTo(c, Len(remote[c])) <= DecrementsUpTo(committed.lots, Len(committed.lots))

\* A committed sale that took a unit, and a later transaction that a dead or
\* failed run had handled and that is still above the cursor.
C6_Witness ==
  /\ run.phase = "idle"
  /\ \E j, k \in DOMAIN remote[1] :
       /\ hist.effects[remote[1][j].transaction_id].touched
       /\ hist.effects[remote[1][j].transaction_id].consumed >= 1
       /\ remote[1][j].transaction_id <= Cursor(committed, 1)
       /\ hist.effects[remote[1][k].transaction_id].touched
       /\ remote[1][k].transaction_id > Cursor(committed, 1)

(***************************************************************************)
(* Queue uniqueness, checked under SpecDup                                 *)
(***************************************************************************)

UniqueKeys(db) ==
  \A c \in Chars, t \in 1..MaxTx : Cardinality(EntriesOf(db.queue, c, t)) <= 1

\* A step of the loop whose transaction is a buy to enqueue under a key the
\* queue already holds.
EnqueuesExistingKey ==
  /\ run.phase = "loop" /\ run'.phase = "loop"
  /\ LET tx == Head(run.txs)
     IN /\ tx.is_buy /\ tx.quantity > 0
        /\ AboveCursor(run.last_id, tx)
        /\ characters[run.ch].wallet_scan_buys
        /\ EntriesOf(session.queue, run.ch, tx.transaction_id) # {}

\* C10: over runs that do not overlap, over re-delivered or duplicated rows
\* and after failed batches, the queue holds at most one entry per
\* (character, transaction id); enqueueing an existing key changes nothing
\* and reports not created.
C10_QueueUnique ==
  /\ [](UniqueKeys(committed) /\ UniqueKeys(session))
  /\ [][EnqueuesExistingKey =>
          /\ session'.queue = session.queue
          /\ ~run'.created
          /\ run'.stats.queued_imports = run.stats.queued_imports
          /\ run'.stats.new_transactions = run.stats.new_transactions]_vars

\* Inside a batch an entry was created and a later enqueue reported not
\* created.
C10_Witness ==
  /\ run.phase = "loop"
  /\ run.stats.queued_imports >= 1
  /\ ~run.created
  /\ Len(session.queue) = 1

(***************************************************************************)
(* Response cache properties, checked under SpecCache                      *)
(***************************************************************************)

\* The call of p ends in this step.
Ends(p) == fetches[p].pc # "done" /\ fetches'[p].pc = "done"

\* The call of p consults the cache in this step.
LooksUp(p) == ~fetches[p].looked_up /\ fetches'[p].looked_up

\* A call that returns cached data returns the data of the entry under its
\* key, strictly before that entry's expires_at.
ServedBeforeExpiry(p) ==
  LET f == fetches'[p]
      e == cache[cache_key(f.path, f.identity)]
  IN Ends(p) /\ f.from_cache
       => e.present /\ f.data = e.data /\ e.expires_at # None /\ clock < e.expires_at

\* An entry written in a step expires in the future, and a response whose
\* Expires is absent or not in the future leaves the cache as it was.
StoredWithFutureExpiry(p) ==
  /\ \A k \in DOMAIN cache :
       cache'[k] # cache[k] /\ cache'[k].present
         => cache'[k].expires_at # None /\ cache'[k].expires_at > clock
  /\ fetches[p].pc = "inflight" /\ fetches'[p].pc # "inflight"
     /\ (fetches[p].resp.expires = None \/ fetches[p].resp.expires <= clock)
       => cache' = cache

\* A call that consults the cache and is not served from it goes on to a
\* request: it is cleared to send or waits for clearance.
MissGoesToNetwork(p) ==
  LooksUp(p) /\ ~fetches'[p].from_cache => fetches'[p].pc \in {"send", "paused"}

\* A call that consulted the cache and ended without being served from it has
\* issued a request.
MissIssuedRequest ==
  \A p \in Procs :
    fetches[p].pc = "done" /\ fetches[p].looked_up /\ ~fetches[p].from_cache
      => fetches[p].requests >= 1

\* C11: esi_get never returns cached data at or after the entry's expires_at
\* and never stores a response whose Expires is absent or not in the future;
\* hence every call that finds no live entry issues a request.
C11_CacheExpiry ==
  /\ []MissIssuedRequest
  /\ [][\A p \in Procs : /\ ServedBeforeExpiry(p)
                         /\ StoredWithFutureExpiry(p)
                         /\ MissGoesToNetwork(p)]_vars

\* A call found its entry expired, dropped it, asked the API and returned
\* the answer; the answer was not stored since its Expires was not in the
\* future.
C11_Witness ==
  /\ fetches[1].pc = "done"
  /\ fetches[1].dropped
  /\ ~fetches[1].from_cache
  /\ fetches[1].outcome = "data"
  /\ fetches[1].requests = 1
  /\ ~cache[cache_key(fetches[1].path, fetches[1].identity)].present

\* C12: data served from the cache was fetched under the authentication
\* identity of the call it is served to: the body a call gets from the cache
\* is one the API gave to the credential this call presents.
C12_NoCrossIdentity ==
  \A p \in Procs :
    fetches[p].pc = "done" /\ fetches[p].from_cache
      => fetches[p].data.cred = fetches[p].cred

\* The cache holds a live entry with data under the key of p's call, and the
\* call does not force a refresh.
LiveHit(p) ==
  LET f == fetches[p]
      key == cache_key(f.path, f.identity)
  IN /\ ~f.force_refresh
     /\ f.identity \in Identities
     /\ cache[key].present
     /\ cache[key].data.version # 0
     /\ clock < cache[key].expires_at

\* The call of p posts to the token endpoint or sends a request in this step.
NetworkCall(p) ==
  \/ fetches'[p].token_posts > fetches[p].token_posts
  \/ fetches'[p].requests > fetches[p].requests

\* C13: an unforced call that finds a live entry under its key returns the
\* entry's data without any network call, neither a request to the API nor
\* an exchange at the token endpoint, in every auth mode.
C13_HitWithoutNetwork ==
  [][\A p \in Procs :
       fetches[p].pc = "start" /\ fetches'[p].pc # "start" /\ LiveHit(p)
         => /\ ~NetworkCall(p)
            /\ fetches'[p].pc = "done"
            /\ fetches'[p].from_cache
            /\ fetches'[p].data = cache[cache_key(fetches[p].path, fetches[p].identity)].data]_vars

(***************************************************************************)
(* Error-budget governor properties, checked under SpecConcurrent          *)
(***************************************************************************)

\* The request of p goes out in this step.
Sends(p) == fetches[p].pc = "send" /\ fetches'[p].pc = "inflight"

\* C14: under any interleaving of overlapping calls no request goes out while
\* _error_pause_until is set and in the future, also when another call arms
\* the pause after this call passed its clearance check and before its
\* request is sent.
C14_NoRequestWhilePaused ==
  [][\A p \in Procs :
       Sends(p) => error_pause_until = None \/ clock >= error_pause_until]_vars

\* The answer to p's request is handled in this step.
Receives(p) == fetches[p].pc = "inflight" /\ fetches'[p].pc # "inflight"

\* The durations, in seconds, of the arms the handling of answer resp makes:
\* the low-water arm, and the arm of a 420 or 429.
Arms(resp) ==
  LET h == extract_error_headers(resp.remain, resp.reset)
  IN (IF IsInt(resp.remain) /\ IsInt(resp.reset) /\ resp.remain <= ERROR_LIMIT_THRESHOLD
        THEN {resp.reset} ELSE {})
     \cup (IF resp.status = 420 THEN {Or(h.reset, 60)} ELSE {})
     \cup (IF resp.status = 429 THEN {Or(h.reset, 10)} ELSE {})

\* C15: an arm sets or extends the pause and never shortens it: after the
\* handling of an answer that arms, _error_pause_until is at least what it
\* was before and at least now + max(d, 1) for every duration d armed.
C15_ArmNeverShortens ==
  [][\A p \in Procs :
       Receives(p) /\ Arms(fetches[p].resp) # {}
         => /\ error_pause_until' # None
            /\ error_pause_until' >= error_pause_until
            /\ \A d \in Arms(fetches[p].resp) :
                 error_pause_until' >= clock + Seconds(Max(d, 1))]_vars

(***************************************************************************)
(* Retry and throttling properties, checked under SpecRetry                *)
(***************************************************************************)

\* The answer carries both budget headers, remain at or below the threshold.
LowRemain(resp) ==
  IsInt(resp.remain) /\ IsInt(resp.reset) /\ resp.remain <= ERROR_LIMIT_THRESHOLD

FailsNow(p, outcome) ==
  /\ fetches'[p].pc = "done"
  /\ fetches'[p].outcome = outcome
  /\ fetches'[p].path = fetches[p].path
  /\ fetches'[p].status = fetches[p].resp.status
  /\ fetches'[p].requests = fetches[p].requests

\* C17 as stated: a 420 arms the pause for the duration of the reset header,
\* 60 seconds when the header is absent, and the call fails at once with a
\* throttle error and sends nothing more, whatever its attempt number.
C17_HardLimitAsStated ==
  [][\A p \in Procs :
       Receives(p) /\ fetches[p].resp.status = 420
         => /\ error_pause_until' = clock + Seconds(Max(
                 IF fetches[p].resp.reset = None THEN 60 ELSE fetches[p].resp.reset, 1))
            /\ FailsNow(p, "ESIThrottleError")]_vars

\* The reset value a 420 or 429 is armed with: the reset header when both
\* budget headers parse and it is not 0.
UsableReset(resp) ==
  IsInt(resp.reset) /\ resp.reset # 0 /\ resp.remain # Garbage

\* C17: a 420 arms the pause for the duration of the reset header when that
\* is a non-zero integer and the remain header, if any, is an integer, and
\* for 60 seconds otherwise; the call fails at once with a throttle error and
\* sends nothing more, whatever its attempt number.
C17_HardLimit ==
  [][\A p \in Procs :
       Receives(p) /\ fetches[p].resp.status = 420
         => /\ error_pause_until' = clock + Seconds(
                 IF UsableReset(fetches[p].resp) THEN Max(fetches[p].resp.reset, 1) ELSE 60)
            /\ FailsNow(p, "ESIThrottleError")]_vars

\* A second attempt was answered 420 with a reset of 0: the call has failed
\* after two requests and the pause lasts 60 seconds.
C17_Witness ==
  /\ fetches[1].pc = "done"
  /\ fetches[1].statuses = <<500, 420>>
  /\ fetches[1].outcome = "ESIThrottleError"
  /\ fetches[1].requests = 2
  /\ net.low_status = 420
  /\ net.low_until = clock + Seconds(1)
  /\ error_pause_until = clock + Seconds(60)

\* The call of p goes to sleep in this step for the backoff of its attempt:
\* the base delay after the first attempt, twice that after the second.
BacksOff(p) ==
  /\ fetches[p].attempt < MAX_RETRIES
  /\ fetches'[p].pc = "backoff"
  /\ fetches'[p].requests = fetches[p].requests
  /\ fetches'[p].wake = clock + (IF fetches[p].attempt = 1 THEN BASE_BACKOFF_SECONDS
                                                         ELSE 2 * BASE_BACKOFF_SECONDS)
  /\ fetches'[p].retry_at = fetches'[p].wake

\* A call answered 429 on every attempt has failed with a throttle error.
AllThrottledFails ==
  \A p \in Procs :
    fetches[p].pc = "done" /\ fetches[p].statuses = <<429, 429, 429>>
      => fetches[p].outcome = "ESIThrottleError" /\ fetches[p].status = 429

\* C18: a 429 arms the pause and, below the retry ceiling, is retried after a
\* backoff of the base delay, then twice the base delay; at the ceiling the
\* call fails with a throttle error.  No retry goes out before its backoff
\* has passed, and 429, 429, 200 returns the body of the 200.
C18_RateLimitRetries ==
  /\ []AllThrottledFails
  /\ [][\A p \in Procs :
          /\ Receives(p) /\ fetches[p].resp.status = 429
               => /\ error_pause_until' # None
                  /\ error_pause_until' >= clock + Seconds(1)
                  /\ IF fetches[p].attempt = MAX_RETRIES
                       THEN FailsNow(p, "ESIThrottleError")
                       ELSE BacksOff(p)
          /\ Sends(p) => clock >= fetches[p].retry_at
          /\ Receives(p) /\ fetches'[p].statuses = <<429, 429, 200>>
               => /\ fetches'[p].pc = "done"
                  /\ fetches'[p].outcome = "data"
                  /\ fetches'[p].data = fetches[p].resp.data]_vars

\* 429, 429, 200: the call returned the body after three requests, no earlier
\* than both backoffs, 0.5 s and 1 s, after it began.
C18_Witness ==
  /\ fetches[1].pc = "done"
  /\ fetches[1].statuses = <<429, 429, 200>>
  /\ fetches[1].outcome = "data"
  /\ fetches[1].data.version = 1
  /\ fetches[1].requests = MAX_RETRIES
  /\ clock >= 3 * BASE_BACKOFF_SECONDS

\* A status from 400 to 499 other than 420 and 429.
OtherClientError(status) == 400 <= status /\ status < 500 /\ status \notin {420, 429}

\* C20: a 4xx answer other than 420 and 429 makes the call fail at once with
\* an ESIClientError carrying the path, the status and the response text;
\* the call sends nothing more and the cache is left as it was.
C20_ClientErrorFails ==
  [][\A p \in Procs :
       Receives(p) /\ OtherClientError(fetches[p].resp.status)
         => /\ FailsNow(p, "ESIClientError")
            /\ fetches'[p].data = fetches[p].resp.data
            /\ (fetches[p].resp.data.version # 0 => fetches'[p].message = "body")
            /\ cache' = cache]_vars

\* A retried call was answered 404 with a body: it has failed with that
\* status and body after two requests, and nothing is cached under its key.
C20_Witness ==
  /\ fetches[1].pc = "done"
  /\ fetches[1].statuses = <<500, 404>>
  /\ fetches[1].outcome = "ESIClientError"
  /\ fetches[1].status = 404
  /\ fetches[1].message = "body"
  /\ fetches[1].data.version = 1
  /\ fetches[1].requests = 2
  /\ ~cache[cache_key(fetches[1].path, fetches[1].identity)].present

(***************************************************************************)
(* Termination, checked under SpecRetryFair                                *)
(***************************************************************************)

\* A call never sends more than MAX_RETRIES requests.
RequestsBounded == \A p \in Procs : fetches[p].requests <= MAX_RETRIES

\* The call of p is running.
Running(p) == fetches[p].pc \notin {"idle", "done"}

\* The call of p has returned data or raised.
Ended(p) == fetches[p].pc = "done" /\ fetches[p].outcome # "none"

\* C19: one esi_get call sends at most MAX_RETRIES requests whatever mix of
\* transport failures, 429 and 5xx answers it meets, and, the pauses it waits
\* on elapsing, it ends with data or an error.
C19_BoundedAndTerminates ==
  /\ []RequestsBounded
  /\ \A p \in Procs : Running(p) ~> Ended(p)

\* A call met a transport failure, a 429 and a 5xx, in that order, and ended
\* with an error after exactly MAX_RETRIES requests.
C19_Witness ==
  /\ fetches[1].pc = "done"
  /\ fetches[1].statuses = <<-1, 429, 500>>
  /\ fetches[1].requests = MAX_RETRIES
  /\ fetches[1].outcome = "ESIClientError"

(***************************************************************************)
(* Credential manager                                                      *)
(***************************************************************************)

\* Call p asked get_access_token for a token and got one.
TokenReturned(p) == fetches[p].token_left # None

\* C21: every access token get_access_token returns, from its cache or fresh
\* from the token endpoint whatever expires_in that reports, has more than 60
\* seconds left before its expiry at the moment it is returned.
C21_TokenMargin ==
  \A p \in Procs : TokenReturned(p) => fetches[p].token_left > TOKEN_MARGIN

\* The refresh token the exchange behind c's cached access token answered
\* with has been committed to c's row.
ExchangePersisted(c) ==
  token_cache[c].present => token_cache[c].refresh_token \in creds.persisted[c]

\* Call p's exchange rotated the refresh token; rotated tokens are committed
\* by TokenCommit only.
RotatedBy(p) == fetches[p].new_refresh # None

\* C22: a rotated refresh token is committed to the character's row before
\* the new access token is put in the token cache: in no reachable state,
\* whether the rotation's commit is pending, failed, or cut short by a
\* restart, does the token cache hold an access token of an exchange whose
\* refresh token has not been committed; and a call still waiting for the
\* rotation's commit has cached nothing of its exchange.
C22_PersistBeforeCache ==
  /\ \A c \in Principals : ExchangePersisted(c)
  /\ \A p \in Procs :
       fetches[p].pc = "token_commit"
         => token_cache[fetches[p].character].refresh_token # fetches[p].new_refresh

\* A rotated refresh token is committed and the access token of its exchange
\* is cached.
C22_Witness ==
  \E p \in Procs :
    /\ RotatedBy(p)
    /\ fetches[p].pc = "done"
    /\ token_cache[fetches[p].character].present
    /\ token_cache[fetches[p].character].refresh_token = fetches[p].new_refresh
    /\ creds.refresh_token[fetches[p].character] = fetches[p].new_refresh

\* Call p, made for a character with its stored credential, runs
\* get_access_token in this step.
GetsAccessToken(p) ==
  /\ fetches[p].pc = "start"
  /\ fetches'[p].pc \notin {"start", "idle"}
  /\ ~fetches[p].public /\ fetches[p].token = None /\ fetches[p].character # None

\* C23: get_access_token raises a configuration error, without posting to the
\* token endpoint and without changing the token cache or the character,
\* whenever the client id or secret is not set or the character has no
\* refresh token stored.
C23_ConfigurationError ==
  [][\A p \in Procs :
       GetsAccessToken(p) /\ (~creds.client \/ fetches[p].refresh_token = None)
         => /\ fetches'[p].pc = "done"
            /\ fetches'[p].outcome = "RuntimeError"
            /\ fetches'[p].token_posts = 0
            /\ fetches'[p].requests = 0
            /\ token_cache' = token_cache
            /\ creds' = creds]_vars

(***************************************************************************)
(* The sweep over the linked characters                                    *)
(***************************************************************************)

\* sync_character_wallet_once has returned; last.per_character is the
\* "characters" list of its result.
SweepReturned == run.phase = "idle" /\ last.op = "sync"

CharacterIds(results) == [k \in DOMAIN results |-> results[k].character_id]

\* The characters visited so far have one record each, in sweep order, and
\* the others are still to be visited.
VisitedOnce ==
  /\ run.phase \in {"next", "loop"} => CharacterIds(run.results) \o run.todo = SweepOrder
  /\ SweepReturned => CharacterIds(last.per_character) = SweepOrder

\* This step ends the run of a character in the except branch.
RunFails ==
  /\ last'.op = "sync"
  /\ last'.sync_status = "error"
  /\ last' # last \/ run' # run

\* Apart from the status and message of character c nothing committed
\* changes in this step.
OnlyStatusOf(c) ==
  /\ committed'.items = committed.items
  /\ committed'.lots = committed.lots
  /\ committed'.events = committed.events
  /\ committed'.queue = committed.queue
  /\ \A d \in DOMAIN characters :
       /\ committed'.sync[d].last_transaction_id = committed.sync[d].last_transaction_id
       /\ d # c => committed'.sync[d] = committed.sync[d]

\* After this step the handler goes on with the character that follows.
SweepGoesOn ==
  LET visited == Len(last'.per_character)
  IN IF visited < Len(SweepOrder)
       THEN /\ run'.phase = "next"
            /\ run'.todo = SubSeq(SweepOrder, visited + 1, Len(SweepOrder))
            /\ run'.results = last'.per_character
       ELSE run' = IdleRun

C25_NeverPropagates ==
  /\ last.op = "sync_raised" => characters = <<>>
  /\ SweepReturned =>
       /\ characters # <<>>
       /\ CharacterIds(last.per_character) = SweepOrder
       /\ \A k \in DOMAIN last.per_character :
            /\ last.per_character[k].sync_status \in {"ok", "skipped", "error"}
            /\ last.per_character[k].sync_detail # <<>>

(***************************************************************************)
(* Review of the queue                                                     *)
(***************************************************************************)

\* Entries whose committed status changes in this step from one value to
\* another.
Moved(from, to) ==
  {k \in DOMAIN committed.queue :
     committed.queue[k].status = from /\ committed'.queue[k].status = to}

\* Committed entries stay, and nothing but their status changes.
EntriesKept ==
  /\ Len(committed'.queue) >= Len(committed.queue)
  /\ \A k \in DOMAIN committed.queue :
       [committed'.queue[k] EXCEPT !.status = committed.queue[k].status]
         = committed.queue[k]

\* A status changes only from pending, to applied or ignored, and in a
\* wallet_queue_apply step.
OnlyFromPending ==
  \A k \in DOMAIN committed.queue :
    committed'.queue[k].status # committed.queue[k].status
      => /\ committed.queue[k].status = "pending"
         /\ committed'.queue[k].status \in {"applied", "ignored"}
         /\ last'.op = "queue_apply"

NewLots == (Len(committed.lots) + 1)..Len(committed'.lots)

NewEvents == (Len(committed.events) + 1)..Len(committed'.events)

\* A wallet_queue_apply step creates one lot, with the entry's item, quantity,
\* unit cost and time, and that lot's import event for each entry it applies,
\* and nothing else: none for an ignored entry, none for an entry that was
\* applied or ignored before.
OneLotPerApplied ==
  last'.op = "queue_apply" /\ <<committed, last>>' # <<committed, last>>
    => /\ SubSeq(committed'.lots, 1, Len(committed.lots)) = committed.lots
       /\ SubSeq(committed'.events, 1, Len(committed.events)) = committed.events
       /\ Cardinality(NewLots) = Cardinality(Moved("pending", "applied"))
       /\ Cardinality(NewEvents) = Cardinality(Moved("pending", "applied"))
       /\ \E lot_of \in [Moved("pending", "applied") -> NewLots] :
            /\ \A j, k \in DOMAIN lot_of : lot_of[j] = lot_of[k] => j = k
            /\ \A k \in DOMAIN lot_of :
                 LET e == committed.queue[k]
                 IN /\ committed'.lots[lot_of[k]]
                         = InventoryLot(e.item_id, e.quantity, e.unit_price, e.eve_time)
                    /\ \E n \in NewEvents :
                         committed'.events[n]
                           = InventoryEvent("import", e.item_id, lot_of[k], e.quantity)

\* C26: the status of a queue entry changes only in the operator's apply or
\* ignore action and only from pending; pending to applied creates exactly
\* one lot with the entry's quantity and unit cost and its import event,
\* pending to ignored creates no lot and no event, and applied and ignored
\* entries never change again, so that submitting the same ids again has no
\* further effect on the ledger.
C26_QueueStatus ==
  [][EntriesKept /\ OnlyFromPending /\ OneLotPerApplied]_vars

\* Two entries at different prices have been reviewed: one was applied and has
\* its lot at its unit cost, the other was ignored, and the ledger holds no
\* other lot.
C26_Witness ==
  /\ last.op = "queue_apply"
  /\ \E j, k \in DOMAIN committed.queue :
       /\ committed.queue[j].status = "applied"
       /\ committed.queue[k].status = "ignored"
       /\ committed.queue[j].unit_price # committed.queue[k].unit_price
       /\ Len(committed.lots) = 1
       /\ committed.lots[1].unit_cost = committed.queue[j].unit_price
       /\ committed.lots[1].quantity_total = committed.queue[j].quantity

(***************************************************************************)
(* Lifetime of a lot                                                       *)
(***************************************************************************)

\* From store a to store b every lot of a is still there, the same lot with
\* the same quantity_total, and its quantity_remaining has not grown.
LotsOnlyShrink(a, b) ==
  /\ Len(b.lots) >= Len(a.lots)
  /\ \A i \in DOMAIN a.lots :
       /\ b.lots[i].quantity_total = a.lots[i].quantity_total
       /\ b.lots[i].quantity_remaining <= a.lots[i].quantity_remaining
       /\ b.lots[i].item_id = a.lots[i].item_id
       /\ b.lots[i].acquired_at = a.lots[i].acquired_at

\* The step rolls the session back: its lots are the committed ones again.
RolledBack == session'.lots = committed.lots

\* C27: over the lifetime of a lot its quantity_remaining never increases,
\* its quantity_total never changes, and no operation of the ledger or the
\* reconciler deletes it, not even when nothing of it remains: this holds for
\* the committed lots in every step and for the lots of the session in every
\* step that is no rollback.
C27_LotLifetime ==
  [][/\ LotsOnlyShrink(committed, committed')
     /\ RolledBack \/ LotsOnlyShrink(session, session')]_vars

\* A lot has been used up and is still there, and a younger lot of the same
\* item has been consumed from after it.
C27_Witness ==
  /\ Len(committed.lots) = 2
  /\ committed.lots[1].quantity_remaining = 0
  /\ committed.lots[1].quantity_total > 0
  /\ committed.lots[2].item_id = committed.lots[1].item_id
  /\ committed.lots[2].quantity_remaining < committed.lots[2].quantity_total

(***************************************************************************)
(* The run of one character                                                *)
(***************************************************************************)

ScanningDisabled(c) ==
  ~characters[c].wallet_scan_buys /\ ~characters[c].wallet_scan_sells

\* _sync_wallet_for_character runs for the next character and ends in this
\* step.
RunsThrough(c) ==
  /\ NextCharacter
  /\ Head(Todo) = c
  /\ last'.op = "sync"
  /\ last' # last \/ run' # run \/ committed' # committed

\* Apart from the sync status and message of character c the store is the
\* same before and after this step.
SameButStatus(before, after, c) ==
  /\ after.items = before.items
  /\ after.lots = before.lots
  /\ after.events = before.events
  /\ after.queue = before.queue
  /\ \A d \in DOMAIN characters :
       /\ after.sync[d].last_transaction_id = before.sync[d].last_transaction_id
       /\ d # c => after.sync[d] = before.sync[d]

\* A run that fetches the journal starts in this step.
Fetches(c) == run.phase # "loop" /\ run'.phase = "loop" /\ run'.ch = c

\* C28: when both scan toggles of a character are off its run fetches nothing
\* from the gateway, returns status "skipped", records "skipped" on the
\* character's sync state, and leaves last_transaction_id, every lot, every
\* event and every queue entry as they were.
C28_SkippedFrame ==
  [][\A c \in DOMAIN characters :
       ScanningDisabled(c)
         => /\ ~Fetches(c)
            /\ RunsThrough(c)
                 => /\ last'.sync_status = "skipped"
                    /\ last'.character_id = c
                    /\ last'.new_transactions = 0
                    /\ committed'.sync[c].present
                    /\ committed'.sync[c].last_sync_status = "skipped"
                    /\ SameButStatus(committed, committed', c)
                    /\ SameButStatus(session, session', c)
                    /\ gwvars' = gwvars
                    /\ remote' = remote]_vars

\* A character with a cursor, a lot and a queue entry has been skipped.
C28_Witness ==
  /\ last.op = "sync"
  /\ last.sync_status = "skipped"
  /\ committed.sync[last.character_id].last_sync_status = "skipped"
  /\ committed.sync[last.character_id].last_transaction_id # None
  /\ committed.lots # <<>>
  /\ \E k \in DOMAIN committed.queue : committed.queue[k].status = "pending"

\* A run that started without a cursor on an empty ledger ends well in this
\* step.
FirstRunEnds(c) ==
  /\ run.phase = "loop"
  /\ run.ch = c
  /\ run.last_id = None
  /\ committed.lots = <<>>
  /\ committed.queue = <<>>
  /\ last'.op = "sync"
  /\ last'.sync_status = "ok"

\* C29: with no cursor and an empty ledger, a run over the journal
\* [{id 100, buy, 10 at 5}, {id 101, sell, 4 at 9}] queues exactly one pending
\* entry, for id 100, processes the sale with 0 consumed and 4 unmatched,
\* creates no lot, and sets the cursor to 101.
C29_BuyThenSell ==
  [][\A c \in DOMAIN characters :
       FirstRunEnds(c)
         => /\ Len(committed'.queue) = 1
            /\ committed'.queue[1].transaction_id = 100
            /\ committed'.queue[1].character_id = c
            /\ committed'.queue[1].status = "pending"
            /\ committed'.queue[1].direction = "import"
            /\ committed'.queue[1].quantity = 10
            /\ committed'.queue[1].unit_price = 5
            /\ last'.queued_imports = 1
            /\ last'.auto_sales = 1
            /\ last'.new_transactions = 2
            /\ last'.unmatched_sale_units = 4
            /\ hist'.effects[101].touched
            /\ hist'.effects[101].consumed = 0
            /\ committed'.applied[101] = 1
            /\ committed'.lots = <<>>
            /\ committed'.events = <<>>
            /\ committed'.sync[c].last_transaction_id = 101
            /\ committed'.sync[c].last_sync_status = "ok"]_vars

\* The run over the two rows has ended well, with the buy and the sell of the
\* same item.
C29_Witness ==
  /\ last.op = "sync"
  /\ last.sync_status = "ok"
  /\ last.new_transactions = 2
  /\ committed.lots = <<>>
  /\ Len(committed.queue) = 1
  /\ committed.sync[1].last_transaction_id = 101
  /\ remote[1][1].type_id = remote[1][2].type_id

(***************************************************************************)
(* Order of processing within a run                                        *)
(***************************************************************************)

\* The ids of txs rise strictly from each row to the next.
Ascending(txs) ==
  \A i, j \in DOMAIN txs : i < j => txs[i].transaction_id < txs[j].transaction_id

\* The rows of the journal of c above the cursor the run started from.
RowsAbove(c, last_id) ==
  {k \in DOMAIN remote[c] : ~AlreadySeen(last_id, remote[c][k].transaction_id)}

\* The loop handles the row at the head of the batch in this step.
Handles(tx) ==
  /\ run.phase = "loop"
  /\ run.txs # <<>>
  /\ tx = Head(run.txs)
  /\ run'.phase = "loop"
  /\ run'.txs = Tail(run.txs)

\* This step has an effect on the queue or on the ledger.
HasEffect ==
  \/ session'.queue # session.queue
  \/ session'.lots # session.lots
  \/ session'.events # session.events

\* The run of c ends well in this step.
RunEndsOk(c) ==
  /\ run.phase = "loop"
  /\ run.ch = c
  /\ last'.op = "sync"
  /\ last'.sync_status = "ok"

\* Of two sales of one item handled by the run, the one with the lower id
\* drew from the lots first: the later one took units only if the earlier
\* one was matched in full.
SalesInIdOrder(c) ==
  \A j, k \in RowsAbove(c, run.last_id) :
    LET a == remote[c][j]
        b == remote[c][k]
    IN (/\ a.transaction_id < b.transaction_id
        /\ ~a.is_buy /\ ~b.is_buy
        /\ a.type_id = b.type_id
        /\ a.quantity > 0 /\ b.quantity > 0
        /\ characters[c].wallet_scan_sells
        /\ hist'.effects[b.transaction_id].consumed > 0)
         => hist'.effects[a.transaction_id].consumed = a.quantity

\* C30: within one run the transactions above the cursor have their queue
\* and ledger effects applied in strictly ascending transaction id order,
\* whatever order the gateway delivered them in, so that the sales consume
\* the lots in transaction id order.
C30_AscendingOrder ==
  /\ [](run.phase = "loop" => Ascending(run.txs))
  /\ [][\A c \in DOMAIN characters :
          /\ Fetches(c)
               => \A k \in DOMAIN remote[c] :
                    \E i \in DOMAIN run'.txs : run'.txs[i] = remote[c][k]
          /\ \A tx \in {remote[c][k] : k \in DOMAIN remote[c]} :
               (run.phase = "loop" /\ run.ch = c /\ Handles(tx))
                 => /\ HasEffect
                         => /\ ~AlreadySeen(run.last_id, tx.transaction_id)
                            /\ tx.transaction_id > run.new_last_id
                            /\ run'.new_last_id = tx.transaction_id
                    /\ \A i \in DOMAIN run'.txs :
                         run'.txs[i].transaction_id > tx.transaction_id
          /\ RunEndsOk(c) => SalesInIdOrder(c)]_vars

\* A run has ended well over two sales of one item above its cursor: the one
\* with the lower id was matched in full and the later one found fewer units
\* than it sold.
C30_Witness ==
  /\ last.op = "sync"
  /\ last.sync_status = "ok"
  /\ last.auto_sales >= 2
  /\ last.unmatched_sale_units > 0
  /\ \E j, k \in DOMAIN remote[last.character_id] :
       LET a == remote[last.character_id][j]
           b == remote[last.character_id][k]
       IN /\ a.transaction_id < b.transaction_id
          /\ ~a.is_buy /\ ~b.is_buy
          /\ a.type_id = b.type_id
          /\ hist.effects[a.transaction_id].consumed = a.quantity
          /\ a.quantity > 0
          /\ hist.effects[b.transaction_id].touched
          /\ hist.effects[b.transaction_id].consumed < b.quantity
          /\ committed.sync[last.character_id].last_transaction_id
               = b.transaction_id

(***************************************************************************)
(* Rows of a disabled side                                                 *)
(***************************************************************************)

\* Scanning is off for the side of tx and on for the other side.
DisabledSide(c, tx) ==
  IF tx.is_buy
    THEN ~characters[c].wallet_scan_buys /\ characters[c].wallet_scan_sells
    ELSE ~characters[c].wallet_scan_sells /\ characters[c].wallet_scan_buys

\* The skip counter of the side of tx.
SkippedOf(stats, tx) ==
  IF tx.is_buy THEN stats.skipped_buys_disabled ELSE stats.skipped_sells_disabled

\* A row the loop gets as far as the side test with.
Countable(last_id, tx) == ~AlreadySeen(last_id, tx.transaction_id) /\ tx.quantity > 0

\* The stored cursor of c covers the id.
Covered(db, c, tx_id) ==
  /\ db.sync[c].present
  /\ db.sync[c].last_transaction_id # None
  /\ db.sync[c].last_transaction_id >= tx_id

\* C31: when scanning is disabled for one side only, a transaction of the
\* disabled side above the cursor creates no queue entry (buy) and no lot
\* decrement and no event (sell), is counted as skipped, and still advances
\* the cursor, so that no later run processes it, even after the scanning of
\* that side is enabled again.
C31_DisabledSideSkipped ==
  [][\A c \in DOMAIN characters :
       /\ \A tx \in {remote[c][k] : k \in DOMAIN remote[c]} :
            /\ (run.phase = "loop" /\ run.ch = c /\ Handles(tx)
                   /\ Countable(run.last_id, tx) /\ DisabledSide(c, tx))
                 => /\ session'.queue = session.queue
                    /\ session'.lots = session.lots
                    /\ session'.events = session.events
                    /\ session'.applied = session.applied
                    /\ SkippedOf(run'.stats, tx) = SkippedOf(run.stats, tx) + 1
                    /\ run'.stats.new_transactions = run.stats.new_transactions
                    /\ run'.new_last_id >= tx.transaction_id
            /\ (RunEndsOk(c) /\ Countable(run.last_id, tx) /\ DisabledSide(c, tx))
                 => /\ Covered(committed', c, tx.transaction_id)
                    /\ SkippedOf(last', tx) >= 1
            /\ Covered(committed, c, tx.transaction_id)
                 => /\ Covered(committed', c, tx.transaction_id)
                    /\ (run.phase = "loop" /\ run.ch = c /\ Handles(tx))
                         => /\ session' = session
                            /\ run'.stats = run.stats]_vars

\* A buy was skipped while buy scanning was off; scanning is on for both
\* sides again and a later run over the journal has ended well without
\* skipping or queueing anything: the buy has no queue entry.
C31_Witness ==
  /\ last.op = "sync"
  /\ last.sync_status = "ok"
  /\ last.skipped_buys_disabled = 0
  /\ last.skipped_sells_disabled = 0
  /\ characters[last.character_id].wallet_scan_buys
  /\ characters[last.character_id].wallet_scan_sells
  /\ \E k \in DOMAIN remote[last.character_id] :
       LET tx == remote[last.character_id][k]
       IN /\ tx.is_buy
          /\ tx.quantity > 0
          /\ Covered(committed, last.character_id, tx.transaction_id)
          /\ \A q \in DOMAIN committed.queue :
               committed.queue[q].transaction_id # tx.transaction_id

(***************************************************************************)
(* The cursor a good run stores                                            *)
(***************************************************************************)

\* The ids of the rows of the journal of c above last_id that satisfy counts.
IdsAbove(c, last_id, counts(_)) ==
  {remote[c][k].transaction_id :
     k \in {j \in DOMAIN remote[c] :
              /\ ~AlreadySeen(last_id, remote[c][j].transaction_id)
              /\ counts(remote[c][j])}}

\* The greatest of a non-empty set of ids.
Greatest(ids) == CHOOSE m \in ids : \A i \in ids : i <= m

\* The run of c ends well in this step and stores the greatest of ids as
\* the cursor when there is one, and leaves the stored cursor as it was when
\* there is none above a cursor it started from.
StoresGreatest(c, ids) ==
  RunEndsOk(c)
    => /\ ids # {}
            => committed'.sync[c].last_transaction_id = Greatest(ids)
       /\ (ids = {} /\ run.last_id # None)
            => committed'.sync[c].last_transaction_id = run.last_id
       /\ (committed.sync[c].present /\ run.last_id # None
             /\ committed'.sync[c].last_transaction_id
                  # committed.sync[c].last_transaction_id)
            => /\ ids # {}
               /\ Greatest(ids) > run.last_id

\* The cursor counts every row above it that has a positive quantity.
CursorIsMaxOfCounted ==
  [][\A c \in DOMAIN characters :
       StoresGreatest(c, IdsAbove(c, run.last_id, LAMBDA tx : tx.quantity > 0))]_vars

\* C32: after a successful sync the stored cursor equals the maximum of the
\* prior cursor and the largest transaction id among all fetched transactions
\* above the prior cursor, whether each was enqueued, skipped or consumed,
\* transactions skipped for a zero or negative quantity included; and the
\* persisted cursor is rewritten only if that maximum is strictly greater
\* than the prior cursor.
C32_CursorIsMax ==
  [][\A c \in DOMAIN characters :
       StoresGreatest(c, IdsAbove(c, run.last_id, LAMBDA tx : TRUE))]_vars

(***************************************************************************)
(* Two overlapping runs for one character: src/app/wallet_sync.py,         *)
(* src/app/models.py.  Each request has its own session (db.py get_db);    *)
(* a session reads what is committed and what it has added itself.         *)
(***************************************************************************)

OverlapMaxTx == 2
OverlapRuns == 2
Overlapping == 1..2

\* Comparison of two column values by a unique index: NULL equals nothing.
SqlEqNullsEqual(a, b) == a = b

SqlEq(a, b) == a # None /\ b # None /\ a = b

\* uq_wallet_queue_source_tx: source_kind, character_id, corporation_id,
\* transaction_id.
UniqueViolation(queue, e) ==
  \E k \in DOMAIN queue :
    /\ queue[k].source_kind = e.source_kind
    /\ SqlEq(queue[k].character_id, e.character_id)
    /\ SqlEq(queue[k].corporation_id, e.corporation_id)
    /\ SqlEq(queue[k].transaction_id, e.transaction_id)

\* A request that has not started its run.
IdleSub(runs_left) == [pc |-> "idle", runs_left |-> runs_left]

\* What the session of run r sees: the committed rows and its own.
View(sub) ==
  [committed EXCEPT !.queue = @ \o sub.pending, !.items = @ \cup sub.items]

\* Run r reads the sync state and fetches the journal.
OverlapFetch(r) ==
  /\ run.phase = "overlap"
  /\ run.subs[r].pc = "idle"
  /\ run.subs[r].runs_left > 0
  /\ LET c == run.ch
         last_id == committed.sync[c].last_transaction_id
     IN run' = [run EXCEPT !.subs[r] =
                  [pc |-> "loop", runs_left |-> @.runs_left - 1, ch |-> c,
                   last_id |-> last_id,
                   new_last_id |-> IF last_id = None THEN 0 ELSE last_id,
                   txs |-> SortById(remote[c]),
                   created |-> FALSE,
                   stats |-> NewStats(c),
                   pending |-> <<>>, items |-> {}]]
  /\ last' = NoCall
  /\ UNCHANGED <<gwvars, committed, session, characters, remote, hist>>

\* Run r handles the next row in its session.
OverlapTx(r) ==
  /\ run.phase = "overlap"
  /\ run.subs[r].pc = "loop"
  /\ run.subs[r].txs # <<>>
  /\ LET sub == run.subs[r]
         st == SyncStep([sub EXCEPT !.txs = Tail(@)], View(sub),
                        characters[sub.ch], Head(sub.txs))
     IN run' = [run EXCEPT !.subs[r] =
                  [st.run EXCEPT
                     !.pending = SubSeq(st.db.queue, Len(committed.queue) + 1,
                                        Len(st.db.queue)),
                     !.items = st.db.items \ committed.items]]
  /\ last' = NoCall
  /\ UNCHANGED <<gwvars, committed, session, characters, remote, hist>>

\* Run r saves its state and commits: its rows are inserted, and the unique
\* index may reject one; then the except branch of
\* sync_character_wallet_once rolls back and records the error.
OverlapCommit(r) ==
  /\ run.phase = "overlap"
  /\ run.subs[r].pc = "loop"
  /\ run.subs[r].txs = <<>>
  /\ LET sub == run.subs[r]
         c == sub.ch
         rejected == \E k \in DOMAIN sub.pending :
                       UniqueViolation(committed.queue, sub.pending[k])
         detail == build_character_sync_detail(sub.stats)
         saved == save_wallet_sync_state(View(sub), c,
                     CursorToSave(sub.last_id, sub.new_last_id), "ok", detail)
         failed == save_wallet_sync_state(committed, c, None, "error",
                     <<"Sync failed", "IntegrityError">>)
     IN /\ committed' = IF rejected THEN failed ELSE saved
        /\ session' = committed'
        /\ last' = [op |-> "overlap_sync", by |-> r, character_id |-> c,
                    sync_status |-> IF rejected THEN "error" ELSE "ok",
                    queued_imports |-> IF rejected THEN 0 ELSE sub.stats.queued_imports]
        /\ run' = [run EXCEPT !.subs[r] = IdleSub(sub.runs_left)]
  /\ UNCHANGED <<gwvars, characters, remote, hist>>

\* Journals of at most OverlapMaxTx buys.
OverlapJournals ==
  UNION {[1..n -> {WalletTx(0, TRUE, quantity, 1, type_id, 1) :
                     quantity \in 1..MaxQty, type_id \in Items}] :
           n \in 0..OverlapMaxTx}

\* Two requests for character 1 are about to run over a journal of buys.
InitOverlap ==
  /\ InitGateway
  /\ committed = EmptyDb
  /\ session = EmptyDb
  /\ characters = [c \in Chars |-> [wallet_scan_buys |-> TRUE, wallet_scan_sells |-> TRUE]]
  /\ \E journal \in OverlapJournals :
       remote = [c \in Chars |->
                  IF c = 1
                    THEN [k \in DOMAIN journal |->
                            [journal[k] EXCEPT !.transaction_id = k]]
                    ELSE <<>>]
  /\ run = [phase |-> "overlap", ch |-> 1,
            subs |-> [r \in Overlapping |-> IdleSub(OverlapRuns)]]
  /\ last = NoCall
  /\ hist = [calls |-> 0, effects |-> [t \in 1..MaxTx |-> NoEffect]]

NextOverlap ==
  \E r \in Overlapping : OverlapFetch(r) \/ OverlapTx(r) \/ OverlapCommit(r)

SpecOverlap == InitOverlap /\ [][NextOverlap]_vars

\* C33: under two overlapping runs for the same character, interleaved at
\* their suspension points, the queue has at most one entry per character
\* and transaction id: the unique constraint of the store rejects the second
\* insert of a key that the check-then-insert of the reconciler let through.
C33_OverlapOneEntry ==
  \A j, k \in DOMAIN committed.queue :
    (/\ committed.queue[j].character_id = committed.queue[k].character_id
     /\ committed.queue[j].transaction_id = committed.queue[k].transaction_id)
      => j = k

(***************************************************************************)
(* Overlapping calls for one character: get_access_token has no lock, and  *)
(* its POST, commit and refresh are suspension points.                     *)
(***************************************************************************)

MaxOverlapFetches == 2

NextTokenConcurrent ==
  \/ \E p \in Procs : CharacterCalls(p, MaxOverlapFetches)
  \/ \E p \in Procs : Resolve(p)
  \/ \E p \in Procs, ok \in BOOLEAN, expires_in \in {61, 1200} :
       \E refresh_token \in Rotations(fetches[p]) :
         TokenResponse(p, ok, expires_in, refresh_token)
  \/ \E p \in Procs : TokenCommit(p, TRUE)
  \/ \E p \in Procs : TokenRefreshed(p)
  \/ \E p \in Procs : \E resp \in PlainResponses(fetches[p], clock) : Send(p, resp)
  \/ \E p \in Procs : Receive(p)
  \/ \E t \in Ticks : Tick(t)

SpecTokenConcurrent == Init /\ [][NextTokenConcurrent]_vars

\* The calls whose exchange with the token endpoint for character c is in
\* flight.
Exchanging(c) ==
  {p \in Procs : fetches[p].pc = "token_post" /\ fetches[p].character = c}

\* No exchange or commit for character c is pending.
TokensSettled(c) ==
  \A p \in Procs :
    fetches[p].character = c
      => fetches[p].pc \notin {"start", "token_post", "token_commit", "token_refresh"}

\* The stored refresh token of every character is the last one issued for it
\* once its exchanges have ended, none of them having failed.
LastIssuedPersisted ==
  \A c \in Principals :
    (TokensSettled(c) /\ \A p \in Procs : fetches[p].outcome # "HTTPStatusError")
      => creds.refresh_token[c] = creds.issued

\* C34: access to the token cache entry of a character is synchronized per
\* character: under concurrent fetches for the same character whose cached
\* token is absent or expiring, at most one exchange with the token endpoint
\* for that character is in flight at a time, so that the same refresh token
\* is never submitted by two overlapping exchanges.
C34_OneExchangeInFlight ==
  \A c \in Principals :
    \A p, q \in Exchanging(c) : p = q

(***************************************************************************)
(* Which error a call raises                                               *)
(***************************************************************************)

\* The call of p has ended after at least one network attempt.
EndedAfterAttempt(p) == fetches[p].pc = "done" /\ fetches[p].statuses # <<>>

\* The outcome of the last network attempt of p: a status, or -1 for a
\* failure of the transport.
LastStatus(p) == fetches[p].statuses[Len(fetches[p].statuses)]

\* The last attempt of p was the final allowed one.
UsedAllAttempts(p) == Len(fetches[p].statuses) = MAX_RETRIES

ServerStatus(status) == 500 <= status /\ status < 600

\* C35: the kind of error esi_get raises is determined by the outcome of its
\* last network attempt only: a throttle error exactly when that attempt
\* returned 420 or 429, a server error carrying the path and the 5xx status
\* exactly when the final allowed attempt returned 5xx, and a transport
\* error with status -1 exactly when the final allowed attempt failed at
\* transport level.
C35_ErrorKindByLastAttempt ==
  \A p \in Procs :
    EndedAfterAttempt(p)
      => /\ fetches[p].outcome = "ESIThrottleError" <=> LastStatus(p) \in {420, 429}
         /\ fetches[p].outcome = "ESIThrottleError"
              => fetches[p].status = LastStatus(p)
         /\ (fetches[p].outcome = "ESIClientError" /\ ServerStatus(fetches[p].status))
              <=> (UsedAllAttempts(p) /\ ServerStatus(LastStatus(p)))
         /\ ServerStatus(LastStatus(p))
              => /\ fetches[p].status = LastStatus(p)
                 /\ fetches[p].path \in Paths
         /\ (fetches[p].outcome = "ESIClientError" /\ fetches[p].status = -1)
              <=> (UsedAllAttempts(p) /\ LastStatus(p) = -1)
         /\ LastStatus(p) = 429 => UsedAllAttempts(p)
         /\ fetches[p].outcome \in {"ESIThrottleError", "ESIClientError"}
              => fetches[p].status = LastStatus(p)

\* A call was answered 429, 429 and 500: it has raised a server error with
\* status 500, not a throttle error.
C35_Witness ==
  /\ fetches[1].pc = "done"
  /\ fetches[1].statuses = <<429, 429, 500>>
  /\ fetches[1].outcome = "ESIClientError"
  /\ fetches[1].status = 500

(***************************************************************************)
(* Revalidation: one caller of public paths and an API that may answer     *)
(* 304 to any request, conditional or not.                                 *)
(***************************************************************************)

MaxRevalidations == 3

\* headers["If-None-Match"] is set from the entry the call holds.
IfNoneMatch(f) == f.entry.present /\ f.entry.etag # None

RevalidateResponses(f, now) ==
  {Response(200, None, None, ex, et, Body(f.cred, v)) :
     ex \in Expiries(now), et \in {None, 1}, v \in 0..NumData}
  \cup {Response(304, None, None, ex, None, Body(f.cred, 0)) : ex \in Expiries(now)}

NextRevalidate ==
  \/ PublicCalls(1, MaxRevalidations)
  \/ Resolve(1)
  \/ \E resp \in RevalidateResponses(fetches[1], clock) : Send(1, resp)
  \/ Receive(1)
  \/ \E t \in Ticks : Tick(t)

SpecRevalidate == Init /\ [][NextRevalidate]_vars

\* The call of p takes a 304 as success in this step.
NotModifiedAccepted(p) ==
  /\ Receives(p)
  /\ fetches[p].resp.status = 304
  /\ fetches'[p].outcome = "data"

\* The call of p returns the data of its entry, and the entry is in the
\* cache with the expiry of the answer, or with its previous one when the
\* answer has none that can be stored.
EntryRestored(p) ==
  LET f == fetches[p]
      key == cache_key(f.path, f.identity)
  IN /\ fetches'[p].data = f.entry.data
     /\ ~fetches'[p].from_cache
     /\ cache'[key] = CacheEntry(f.entry.data,
                                 IF Storable(f.resp.expires, clock)
                                   THEN f.resp.expires ELSE f.entry.expires_at,
                                 f.entry.etag)

\* A call that forces a refresh or holds no entry sends no If-None-Match.
Unconditional(p) ==
  (fetches[p].pc \in {"send", "inflight", "paused", "backoff"}
    /\ (fetches[p].force_refresh \/ ~fetches[p].entry.present))
    => ~IfNoneMatch(fetches[p])

\* A 304 is taken as success only by a call that holds an entry, which it
\* returns and restores.
NotModifiedByEntry ==
  [][\A p \in Procs :
       /\ NotModifiedAccepted(p) => fetches[p].entry.present /\ EntryRestored(p)
       /\ Unconditional(p)]_vars

\* C36: a 304 answer is accepted as success only for a call that holds a
\* cache entry for its key and sent the entry's revalidation tag; that call
\* returns the entry's data and stores the entry again with the expiry of
\* the answer's Expires header, or else the entry's previous expiry; a call
\* with force_refresh or without a cache entry never sends If-None-Match.
C36_NotModified ==
  [][\A p \in Procs :
       /\ NotModifiedAccepted(p)
            => /\ fetches[p].entry.present
               /\ IfNoneMatch(fetches[p])
               /\ EntryRestored(p)
       /\ Unconditional(p)]_vars

(***************************************************************************)
(* Audit conservation, checked under SpecInventory                         *)
(***************************************************************************)

\* The events of a sale or an industry use.
Consumption(e) == e.event_type \in {"sale", "industry"}

\* The summed quantity of the consumption events among events[from..] that
\* reference lot id.
RECURSIVE ConsumedFrom(_, _, _)
ConsumedFrom(events, from, id) ==
  IF from > Len(events) THEN 0
  ELSE (IF Consumption(events[from]) /\ events[from].lot_id = id
          THEN events[from].quantity ELSE 0)
       + ConsumedFrom(events, from + 1, id)

\* Every lot of db has lost what the consumption events referencing it took.
Conserved(db) ==
  \A id \in DOMAIN db.lots :
    db.lots[id].quantity_total - db.lots[id].quantity_remaining
      = ConsumedFrom(db.events, 1, id)

\* The summed quantity of events[from..].
RECURSIVE QuantityFrom(_, _)
QuantityFrom(events, from) ==
  IF from > Len(events) THEN 0
  ELSE events[from].quantity + QuantityFrom(events, from + 1)

\* The events a call added to those of db.
Added(db, after) == {k \in DOMAIN after.events : k > Len(db.events)}

\* A call of consume_lot_fifo on db that returns has added one event for
\* each lot it decremented, with the quantity taken from that lot, no other
\* event, and its consumed result is the sum of their quantities.
CallAccounted(db, item, quantity, allow_partial) ==
  LET r == consume_lot_fifo(db, item, quantity, "sale", allow_partial)
      new == Added(db, r.db)
      taken(id) == db.lots[id].quantity_remaining - r.db.lots[id].quantity_remaining
  IN r.raised = "none"
       => /\ DOMAIN r.db.lots = DOMAIN db.lots
          /\ \A id \in DOMAIN db.lots :
               /\ taken(id) >= 0
               /\ Cardinality({k \in new : r.db.events[k].lot_id = id})
                    = IF taken(id) > 0 THEN 1 ELSE 0
               /\ \A k \in new :
                    r.db.events[k].lot_id = id
                      => /\ r.db.events[k].quantity = taken(id)
                         /\ r.db.events[k].event_type = "sale"
                         /\ r.db.events[k].item_id = item
                         /\ db.lots[id].item_id = item
          /\ \A k \in new : r.db.events[k].lot_id \in DOMAIN db.lots
          /\ \A k \in DOMAIN db.events : r.db.events[k] = db.events[k]
          /\ r.consumed = QuantityFrom(r.db.events, Len(db.events) + 1)

\* C37: in every committed state, for every lot, quantity_total minus
\* quantity_remaining equals the sum of the quantities of the sale and
\* industry events that reference the lot; each consume call emits exactly
\* one event per lot it decrements, with the quantity taken from that lot,
\* and the quantities of the events it returns sum to its consumed result.
C37_AuditConservation ==
  /\ Conserved(committed)
  /\ \A item \in Items, quantity \in 0..(MaxQty + 1), allow_partial \in BOOLEAN :
       CallAccounted(session, item, quantity, allow_partial)

\* A lot was emptied by a sale and an industry use of one unit each, and
\* another lot of the item was consumed in part.
C37_Witness ==
  /\ \E id \in DOMAIN committed.lots :
       /\ committed.lots[id].quantity_remaining = 0
       /\ \E j, k \in DOMAIN committed.events :
            /\ j # k
            /\ committed.events[j].lot_id = id
            /\ committed.events[k].lot_id = id
            /\ committed.events[j].event_type = "sale"
            /\ committed.events[k].event_type = "industry"
  /\ \E id \in DOMAIN committed.lots :
       /\ committed.lots[id].quantity_remaining > 0
       /\ committed.lots[id].quantity_remaining < committed.lots[id].quantity_total

(***************************************************************************)
(* The wait for the error window: two callers of public paths whose calls  *)
(* overlap, under an API that throttles with 420 and 429.  The event loop  *)
(* resumes a coroutine that can run, every request is answered or times    *)
(* out, and time passes.                                                   *)
(***************************************************************************)

MaxClearanceCalls == 2

\* Answers that arm the pause by their status only.
ClearanceResponses(f, now) ==
  {Response(st, None, None, None, None, Body(f.cred, 1)) : st \in {200, 420, 429}}

\* Each caller asks for the same public path.
ClearanceCalls(p, limit) == esi_get(p, 1, None, TRUE, None, TRUE, limit)

NextClearance ==
  \/ \E p \in Procs : ClearanceCalls(p, MaxClearanceCalls)
  \/ \E p \in Procs : Resolve(p)
  \/ \E p \in Procs : WakePaused(p)
  \/ \E p \in Procs : \E resp \in ClearanceResponses(fetches[p], clock) : Send(p, resp)
  \/ \E p \in Procs : Receive(p)
  \/ \E p \in Procs : WakeBackoff(p)
  \/ \E t \in Ticks : Tick(t)

SpecClearanceFair ==
  /\ Init /\ [][NextClearance]_vars
  /\ \A p \in Procs :
       /\ WF_vars(Resolve(p))
       /\ WF_vars(WakePaused(p))
       /\ WF_vars(\E resp \in ClearanceResponses(fetches[p], clock) : Send(p, resp))
       /\ WF_vars(Receive(p))
       /\ WF_vars(WakeBackoff(p))
  /\ WF_vars(\E t \in Ticks : Tick(t))

\* The call of p sleeps in _maybe_wait_for_error_window.
Waiting(p) == fetches[p].pc = "paused"

\* The call of p returns from _maybe_wait_for_error_window in this step.
PassesClearance(p) == fetches[p].pc # "send" /\ fetches'[p].pc = "send"

\* The call of p looks at the pause again after a sleep.
LooksAgain(p) == Waiting(p) /\ fetches'[p] # fetches[p]

\* The pause is set and not over.
PauseActive == error_pause_until # None /\ clock < error_pause_until

\* C38: the wait for the error window terminates and clears the pause: the
\* pause being armed only finitely many times, every call waiting on it
\* eventually passes; a call looks again after each sleep, so that a pause
\* extended while it slept is still honoured, and the call that sees the
\* pause as elapsed resets _error_pause_until to None.
C38_ClearanceTerminates ==
  /\ \A p \in Procs : Waiting(p) ~> fetches[p].pc = "send"
  /\ [][\A p \in Procs :
          /\ LooksAgain(p)
               => /\ clock >= fetches[p].wake
                  /\ IF PauseActive
                       THEN /\ Waiting(p)'
                            /\ fetches'[p].wake = error_pause_until
                            /\ error_pause_until' = error_pause_until
                       ELSE /\ fetches'[p].pc = "send"
                            /\ error_pause_until' = None
          /\ PassesClearance(p)
               => /\ ~PauseActive
                  /\ error_pause_until' = None]_vars

\* A call slept, found the pause extended by the other caller's 420 when it
\* woke, slept again, and has now passed with the pause reset.
C38_Witness ==
  \E p \in Procs :
    /\ fetches[p].pc = "send"
    /\ fetches[p].resleeps > 0
    /\ error_pause_until = None

====
